---------------------------- MODULE Spec2Model ----------------------------
(***************************************************************************)
(* Model of the PumpCleanup core:                                          *)
(*   - src/src/lib/solana.ts: scanWalletForCloseableAccounts and           *)
(*     createCloseAccountTransactions;                                     *)
(*   - src/src/hooks/useDegenPrinter.ts: the print attempt (validation,    *)
(*     build, signing, sequential submission, reconciliation) and reset;   *)
(*   - the scanner hook useWalletRentScanner and the panel driving it;     *)
(*   - src/src/components/index.ts: the landing page's scan cache;         *)
(*   - src/backend/src/services/cleanupCache.ts: the recent-payout cache.  *)
(*                                                                         *)
(* Spec        : a fresh hook instance, its first print attempt, resets.   *)
(* SpecScan    : one scan of a wallet, over both data sources.             *)
(* SpecBuild   : print up to the signing request, over the full range of   *)
(*               the builder's inputs (fee options, custom destination,    *)
(*               blockhash).                                               *)
(* SpecSession : several print attempts in a row on one hook instance.     *)
(* SpecSessionFair : SpecSession in which every timer fires and every      *)
(*               external call returns or throws.                          *)
(* SpecLargeScan  : one scan of a wallet whose indexing-API response is    *)
(*               around the cap of accounts returned.                      *)
(* SpecLargePrint : a first print attempt on a selection of several        *)
(*               batches.                                                  *)
(* SpecFee     : SpecSession over fee recipients that are no public key.   *)
(* SpecOverlap : two print attempts on one hook instance, interleaved      *)
(*               at their awaits.                                          *)
(* SpecScanner : the scanner hook: scans, resets, wallet changes.          *)
(* SpecHero    : the landing page: scan requests, remounts, the clock.     *)
(* SpecPayout  : the backend cache: reads, refreshes, the clock.           *)
(* SpecLoop    : one call of the builder under any batch-size setting.     *)
(*                                                                         *)
(* A token account's address is modelled by a natural number, a            *)
(* transaction's signature by the 1-based position of the transaction in   *)
(* the signed list.  The progress record keeps status, currentTx and       *)
(* totalTx; its message and percentage (display only) are not modelled.    *)
(* Amounts in SOL, the fee fraction and the backend's rewards are          *)
(* JavaScript numbers: IEEE-754 doubles, every operation rounded to the    *)
(* nearest double as the engine does.  The scanner panel exists only       *)
(* while a wallet is connected.                                            *)
(***************************************************************************)
EXTENDS Integers, Sequences, FiniteSets, TLC

\* ------------------------------------------------------------------ bounds

\* Largest number of accounts handed to print in one attempt.
MaxAccounts == 12
\* Largest number of token-account records a data source returns to a scan.
MaxRecords == 2
\* Largest number of print attempts of one session.
MaxSessionAttempts == 2
\* Largest number of records of one large indexing-API response.
MaxLargeRecords == 104
\* Largest number of accounts of a large selection handed to print.
MaxLargeAccounts == 44
\* Largest number of scans the scanner hook starts.
MaxScans == 3
\* Landing-page instances mounted, and clock steps, in one behaviour.
MaxMounts == 2
MaxTicks == 3
\* Largest number of refreshes of the backend cache.
MaxRefreshes == 3
\* Largest number of accounts handed to the builder under any batch size.
MaxLoopAccounts == 5

\* ------------------------------------------------------- program constants

\* The literal batch size used by print when counting closed accounts.
HardcodedBatch == 10
\* Default of MAX_ACCOUNTS_PER_TX.
DefaultMaxAccountsPerTx == 10
\* TOKEN_ACCOUNT_RENT_LAMPORTS: rent of a standard token account.
TOKEN_ACCOUNT_RENT_LAMPORTS == 2039280

\* Values NEXT_PUBLIC_MAX_ACCOUNTS_PER_TX is configured to in the model.
BatchSizes == {3, DefaultMaxAccountsPerTx}

Null == "null"

Min(a, b) == IF a < b THEN a ELSE b

\* --------------------------------------------------------------- variables

VARIABLES
    \* configuration (constants.ts), fixed for a behaviour
    cfgMaxPerTx,            \* MAX_ACCOUNTS_PER_TX
    cfgFeeRecipient,        \* FEE_RECIPIENT
    cfgFeePercentage,       \* NEXT_PUBLIC_FEE_PERCENTAGE, as decimal text
    \* hook state (useState)
    progress,               \* PrintProgress
    lastResult,             \* PrintResult | null
    sessionStats,           \* SessionStats
    \* the running print attempt: its position and its locals
    pc,
    publicKey, signAllTransactions, signTransaction,
    accounts,
    destinationPubkey,      \* the parsed customDestination, or Undefined
    transactions,
    signedTransactions,
    i,
    signatures,
    confirmedSignatures,
    accountsClosedSoFar,
    failedTransactions,
    lastError,
    returned,               \* what the attempt's promise resolved to
    \* history of the attempt's external calls, in order
    calls,
    attempts,               \* print attempts started so far
    statsAtStart,           \* sessionStats when the attempt started
    seenStatus,             \* progress statuses set by the attempt, in order
    lastFailure,            \* the most recent failure of a transaction
    \* one scan of a wallet (scanWalletForCloseableAccounts)
    scanPc,
    dasResponse,            \* what the indexing-API request produced
    splResponse,            \* what the legacy-program listing produced
    token2022Response,      \* what the Token-2022 listing produced
    rpcSettled,             \* the listings that have settled, in that order
    allAccounts,            \* the normalized records
    scanResult,
    \* the scanner hook (useWalletRentScanner) and the panel that drives it
    connectedWallet,        \* useWallet().publicKey
    lastWalletAddress,      \* ScannerPanel's lastWalletAddress ref
    scannerState,           \* ScanState
    scansInFlight,          \* the scans whose promise has not settled
    rescanTimers,           \* pending setTimeout(() => scan(), 100) timers
    scansStarted,           \* scans started so far
    latestScan,             \* the most recently started scan, 0 after a reset
    \* a second print attempt on the same hook instance
    parked,                 \* the locals of the attempt that is not taking a step
    \* the landing page (HeroSection) and its module-level scan cache
    heroClock,              \* Date.now()
    scanCache,              \* Map<address, {result, timestamp}>
    heroMount,              \* the mounted HeroSection instance
    heroState,              \* isScanning, scanResult, error of that instance
    heroScans,              \* the scans whose promise has not settled
    heroScansStarted,       \* scans started so far
    heroSucceeded,          \* history: the scans that resolved
    heroRequests,           \* history: the handleScan calls with a valid address
    heroLast,               \* history: the cache before the last settled scan
    \* the backend's recent-payout cache (cleanupCache.ts)
    payoutClock,            \* Date.now() on the backend
    cache,                  \* CacheData
    fetchPromise,           \* the refresh in flight, or Null
    refreshPc,              \* position of that refresh; "exited" when the process ended
    refreshSignatures,      \* the signatures it fetched
    refreshes,              \* refreshes started so far
    payoutWaiters,          \* getCachedDataAsync calls awaiting the refresh
    payoutLast,             \* history: the cache before the last settled refresh
    \* one call of createCloseAccountTransactions under any batch size
    loopPc,
    loopMax,                \* MAX_ACCOUNTS_PER_TX as parsed
    loopAccounts,           \* accounts.length
    loopI,                  \* the loop variable i
    loopTransactions        \* the transactions pushed so far

hookVars == <<progress, lastResult, sessionStats>>
localVars == <<publicKey, signAllTransactions, signTransaction, accounts,
               destinationPubkey, transactions, signedTransactions, i, signatures,
               confirmedSignatures, accountsClosedSoFar, failedTransactions,
               lastError>>
cfgVars == <<cfgMaxPerTx, cfgFeeRecipient, cfgFeePercentage>>
scannerVars == <<connectedWallet, lastWalletAddress, scannerState, scansInFlight,
                 rescanTimers, scansStarted, latestScan>>
heroVars == <<heroClock, scanCache, heroMount, heroState, heroScans, heroScansStarted,
              heroSucceeded, heroRequests, heroLast>>
payoutVars == <<payoutClock, cache, fetchPromise, refreshPc, refreshSignatures, refreshes,
                payoutWaiters, payoutLast>>
loopVars == <<loopPc, loopMax, loopAccounts, loopI, loopTransactions>>
sideVars == <<heroVars, payoutVars, loopVars>>
otherVars == <<scannerVars, parked, sideVars>>
attemptVars == <<cfgVars, hookVars, localVars, pc, returned, calls, attempts,
                 statsAtStart, seenStatus, lastFailure>>
printVars == <<attemptVars, otherVars>>
scanVars == <<scanPc, dasResponse, splResponse, token2022Response, rpcSettled, allAccounts,
              scanResult>>
vars == <<printVars, scanVars>>

\* ------------------------------------------------------------ error values

\* Messages and log lines an RPC client error can carry.
MsgNetwork == "Network request failed"
MsgSimDebit == "Transaction simulation failed: Attempt to debit an account but found no record of a prior credit."
MsgSimFunds == "Simulation failed: insufficient funds for rent"
LogInvoke == "Program 11111111111111111111111111111111 invoke [1]"
LogError == "Program log: Error: Non-native account can only be closed if its balance is zero"
LogFailed == "Program TokenkegQfeZyiNwAJbNbGKPFXCWuBvf9Ss623VQ5DA failed: custom program error: 0xb"

\* String.prototype.includes on the texts above (and so on any text joined
\* from them with "; ", which none of the patterns spans).
Includes(text, pattern) ==
    CASE pattern = "Simulation failed" -> text \in {MsgSimFunds}
      [] pattern = "simulation failed" -> text \in {MsgSimDebit}
      [] pattern = "Attempt to debit" -> text \in {MsgSimDebit}
      [] pattern = "insufficient funds" -> text \in {MsgSimFunds}
      \* log.toLowerCase().includes(...)
      [] pattern = "error" -> text \in {LogError, LogFailed}
      [] pattern = "failed" -> text \in {MsgNetwork, MsgSimDebit, MsgSimFunds, LogFailed}
      [] OTHER -> FALSE

AnyIncludes(parts, pattern) == \E k \in 1..Len(parts) : Includes(parts[k], pattern)

\* Array.prototype.join
RECURSIVE Join(_, _)
Join(parts, sep) ==
    IF Len(parts) = 0 THEN ""
    ELSE IF Len(parts) = 1 THEN parts[1]
    ELSE parts[1] \o sep \o Join(Tail(parts), sep)

\* An error object thrown by sendRawTransaction / confirmTransaction /
\* getLatestBlockhash: message ("" when absent) and logs (<<>> when absent).
ThrownErrors ==
    { [message |-> MsgNetwork, logs |-> <<>>],
      [message |-> MsgSimDebit, logs |-> <<>>],
      [message |-> "", logs |-> <<LogInvoke, LogError, LogFailed>>] }

\* The catch branch's message extraction (useDegenPrinter.ts 366-390).
NormalizeErrorMessage(error) ==
    LET base == IF error.message # "" THEN <<error.message>> ELSE <<"Unknown error">>
        logErrors == SelectSeq(error.logs,
                        LAMBDA log : Includes(log, "error") \/ Includes(log, "failed"))
        parts == IF Len(error.logs) > 0 /\ Len(logErrors) > 0 THEN logErrors ELSE base
    IN  IF AnyIncludes(parts, "Simulation failed") \/ AnyIncludes(parts, "simulation failed")
        THEN IF AnyIncludes(parts, "Attempt to debit")
             THEN "Account may have already been closed or has insufficient rent"
             ELSE IF AnyIncludes(parts, "insufficient funds")
             THEN "Insufficient funds to complete transaction"
             ELSE Join(parts, "; ")
        ELSE Join(parts, "; ")

\* `Transaction ${i + 1} failed on-chain`
OnChainMessage(txNo) == "Transaction " \o ToString(txNo) \o " failed on-chain"

\* `${failedTransactions} transaction(s) failed`
FailedCountMessage(n) == ToString(n) \o " transaction(s) failed"

\* ------------------------------------------------------ transaction builder

\* undefined, as the value of an optional public key
Undefined == "undefined"

\* The connected wallet's public key (the owner of the selected accounts).
WalletOwner == "9WzDXwBbmkg8ZTbNMqUxvQRAyrZzDsGYdLVL9zYtAWWM"

\* Strings handed to new PublicKey: a fee wallet and a refund destination
\* that it accepts, and one that it rejects.
FeeWallet == "FeeW9fXH2dDbVqLJm7uYpV1s5oQkq3Jp9TnRz4yXb6cA"
CustomWallet == "DestQ7mEw5Tt1ZpYh3vUo8sKc2RrLx6NfA9bGjHd4WiM"
NotBase58 == "not-a-public-key"
\* The placeholder FEE_RECIPIENT ships with.
PlaceholderRecipient == "YourFeeWalletAddressHere"

\* The two token programs.
TOKEN_PROGRAM_ID == "TokenkegQfeZyiNwAJbNbGKPFXCWuBvf9Ss623VQ5DA"
TOKEN_2022_PROGRAM_ID == "TokenzQdBNbLqP5VEhdkAS6EPFLC1PHnBqCXEpPxuEb"

\* JavaScript numbers (IEEE-754 doubles) that are not negative and neither
\* subnormal nor infinite: m * 2^x with the integer m of exactly 53 binary
\* digits, held as four limbs of LimbBits digits each, lowest first; zero has
\* m = 0 and x = 0.  Every operation computes the exact result on limbs and
\* rounds it to the nearest double, a tie to the one whose last digit is 0.
LimbBits == 14
LimbBase == 2^LimbBits
ZeroMantissa == <<0, 0, 0, 0>>
DoubleZero == [m |-> ZeroMantissa, x |-> 0]
BigZero == <<0, 0, 0, 0, 0, 0, 0, 0>>
Widen(m) == <<m[1], m[2], m[3], m[4], 0, 0, 0, 0>>
Narrow(big) == CHOOSE m \in { <<b[1], b[2], b[3], b[4]>> : b \in {big} } : TRUE
Limb(big, j) == IF j < 0 \/ j > 7 THEN 0 ELSE big[j + 1]

\* big * 2^s and the integer part of big / 2^s
ShiftedLeftAt(big, q, r, j) ==
    ((Limb(big, j - q) * 2^r) % LimbBase) + (Limb(big, j - q - 1) \div 2^(LimbBits - r))
BigShiftLeft(big, s) ==
    CHOOSE v \in { << ShiftedLeftAt(big, q, r, 0), ShiftedLeftAt(big, q, r, 1),
                      ShiftedLeftAt(big, q, r, 2), ShiftedLeftAt(big, q, r, 3),
                      ShiftedLeftAt(big, q, r, 4), ShiftedLeftAt(big, q, r, 5),
                      ShiftedLeftAt(big, q, r, 6), ShiftedLeftAt(big, q, r, 7) >> :
                   q \in {s \div LimbBits}, r \in {s % LimbBits} } : TRUE
ShiftedRightAt(big, q, r, j) ==
    (Limb(big, j + q) \div 2^r) + ((Limb(big, j + q + 1) % 2^r) * 2^(LimbBits - r))
BigShiftRight(big, s) ==
    CHOOSE v \in { << ShiftedRightAt(big, q, r, 0), ShiftedRightAt(big, q, r, 1),
                      ShiftedRightAt(big, q, r, 2), ShiftedRightAt(big, q, r, 3),
                      ShiftedRightAt(big, q, r, 4), ShiftedRightAt(big, q, r, 5),
                      ShiftedRightAt(big, q, r, 6), ShiftedRightAt(big, q, r, 7) >> :
                   q \in {s \div LimbBits}, r \in {s % LimbBits} } : TRUE

\* The digit at position p, and whether a digit below position p is 1.
BigBit(big, p) == (Limb(big, p \div LimbBits) \div 2^(p % LimbBits)) % 2
BigAnyBelow(big, p) ==
    \/ \E j \in 0..7 : j < p \div LimbBits /\ Limb(big, j) # 0
    \/ Limb(big, p \div LimbBits) % 2^(p % LimbBits) # 0
\* The position of the highest digit that is 1, or -1.
BigTopBit(big) ==
    IF big = BigZero THEN -1
    ELSE LET j == CHOOSE k \in 0..7 :
                     Limb(big, k) # 0 /\ \A h \in 0..7 : h > k => Limb(big, h) = 0
             d == CHOOSE k \in 0..(LimbBits - 1) :
                     2^k <= Limb(big, j) /\ Limb(big, j) < 2^(k + 1)
         IN  LimbBits * j + d

\* a + b and a - b (for a >= b), limb by limb from position j with a carry.
RECURSIVE BigPlusFrom(_, _, _, _)
BigPlusFrom(a, b, j, carry) ==
    IF j > 7 THEN <<>>
    ELSE CHOOSE r \in { <<v % LimbBase>> \o BigPlusFrom(a, b, j + 1, v \div LimbBase) :
                        v \in {Limb(a, j) + Limb(b, j) + carry} } : TRUE
BigPlus(a, b) == CHOOSE r \in { BigPlusFrom(x, y, 0, 0) : x \in {a}, y \in {b} } : TRUE
RECURSIVE BigMinusFrom(_, _, _, _)
BigMinusFrom(a, b, j, borrow) ==
    IF j > 7 THEN <<>>
    ELSE CHOOSE r \in { <<(v + LimbBase) % LimbBase>>
                           \o BigMinusFrom(a, b, j + 1, IF v < 0 THEN 1 ELSE 0) :
                        v \in {Limb(a, j) - Limb(b, j) - borrow} } : TRUE
BigMinus(a, b) == CHOOSE r \in { BigMinusFrom(x, y, 0, 0) : x \in {a}, y \in {b} } : TRUE
BigLess(a, b) ==
    \E j \in 0..7 : Limb(a, j) < Limb(b, j) /\ \A h \in 0..7 : h > j => Limb(a, h) = Limb(b, h)

\* The product of two mantissas, column by column.
ProductColumn(a, b, c) ==
    (IF c <= 3 THEN a[1] * Limb(b, c) ELSE 0)
    + (IF c >= 1 /\ c <= 4 THEN a[2] * Limb(b, c - 1) ELSE 0)
    + (IF c >= 2 /\ c <= 5 THEN a[3] * Limb(b, c - 2) ELSE 0)
    + (IF c >= 3 /\ c <= 6 THEN a[4] * Limb(b, c - 3) ELSE 0)
RECURSIVE ProductFrom(_, _, _, _)
ProductFrom(a, b, c, carry) ==
    IF c > 7 THEN <<>>
    ELSE CHOOSE r \in { <<v % LimbBase>> \o ProductFrom(a, b, c + 1, v \div LimbBase) :
                        v \in {ProductColumn(a, b, c) + carry} } : TRUE

\* The double nearest to big * 2^x, where inexact says that big is the
\* integer part of a value with further digits that are not all 0.
RoundUp(big, u, inexact) ==
    IF BigBit(big, u - 1) = 1 /\ (BigAnyBelow(big, u - 1) \/ inexact \/ BigBit(big, u) = 1)
    THEN 1 ELSE 0
Rounded(big, x, inexact) ==
    CHOOSE d \in {
        IF t < 0 THEN DoubleZero
        ELSE IF t <= 52
        THEN [m |-> Narrow(BigShiftLeft(big, 52 - t)), x |-> x - (52 - t)]
        ELSE CHOOSE r \in {
                 IF sum[4] = 2^11
                 THEN [m |-> <<0, 0, 0, 2^10>>, x |-> x + (t - 52) + 1]
                 ELSE [m |-> Narrow(sum), x |-> x + (t - 52)] :
                 sum \in { BigPlus(BigShiftRight(big, t - 52),
                                   <<RoundUp(big, t - 52, inexact), 0, 0, 0, 0, 0, 0, 0>>) } } : TRUE :
        t \in {BigTopBit(big)} } : TRUE

\* The double of an integer 0 <= n < 2^31.
DoubleOf(n) ==
    Rounded(<< n % LimbBase, (n \div LimbBase) % LimbBase, n \div (LimbBase * LimbBase),
               0, 0, 0, 0, 0 >>, 0, FALSE)

\* a * b
DoubleTimes(a, b) ==
    IF a = DoubleZero \/ b = DoubleZero THEN DoubleZero
    ELSE CHOOSE r \in { Rounded(product, a.x + b.x, FALSE) :
                        product \in {ProductFrom(a.m, Widen(b.m), 0, 0)} } : TRUE

\* a <= b
DoubleAtMost(a, b) ==
    \/ a = DoubleZero
    \/ b # DoubleZero /\ (a.x < b.x \/ (a.x = b.x /\ ~BigLess(Widen(b.m), Widen(a.m))))

\* a + b; an addend below a quarter of the last digit of the other is lost.
SumOfOrdered(hi, lo) ==
    IF lo = DoubleZero \/ hi.x - lo.x >= 56 THEN hi
    ELSE CHOOSE r \in { Rounded(sum, lo.x, FALSE) :
                        sum \in { BigPlus(BigShiftLeft(Widen(hi.m), hi.x - lo.x),
                                          Widen(lo.m)) } } : TRUE
DoublePlus(a, b) == IF DoubleAtMost(b, a) THEN SumOfOrdered(a, b) ELSE SumOfOrdered(b, a)

\* a - b, for a >= b
DoubleMinus(a, b) ==
    IF b = DoubleZero \/ a.x - b.x >= 58 THEN a
    ELSE CHOOSE r \in { Rounded(difference, b.x, FALSE) :
                        difference \in { BigMinus(BigShiftLeft(Widen(a.m), a.x - b.x),
                                                 Widen(b.m)) } } : TRUE

\* n / d for integers 0 <= n < 2^31 and 0 < d < 2^31 whose odd part is below
\* 2^24, both exact as doubles. The powers of two of d only move the exponent;
\* for the odd part o, the integer part of n * 2^s / o, with s the least shift
\* that makes it at least 1, then 70 further digits, seven at a time.
RECURSIVE FractionLimbs(_, _, _)
FractionLimbs(r, d, n) ==
    IF n = 0 THEN <<r>>
    ELSE CHOOSE res \in { <<((hi \div d) * 128) + (((hi % d) * 128) \div d)>>
                             \o FractionLimbs(((hi % d) * 128) % d, d, n - 1) :
                          hi \in {r * 128} } : TRUE
TwoPower(d) == CHOOSE t \in 0..30 : d % (2^t) = 0 /\ d % (2^(t + 1)) # 0
QuotientShift(n, d) ==
    IF n >= d THEN 0 ELSE CHOOSE k \in 1..24 : n * 2^k >= d /\ n * 2^(k - 1) < d
OddQuotient(n, o, t) ==
    CHOOSE res \in {
        CHOOSE r2 \in {
            Rounded(<< f[5], f[4], f[3], f[2], f[1], (n1 \div o) % LimbBase,
                       ((n1 \div o) \div LimbBase) % LimbBase,
                       (n1 \div o) \div (LimbBase * LimbBase) >>,
                    0 - 70 - s - t, f[6] # 0) :
            n1 \in {n * 2^s}, f \in {FractionLimbs((n * 2^s) % o, o, 5)} } : TRUE :
        s \in {QuotientShift(n, o)} } : TRUE
DoubleOfQuotient(n, d) ==
    IF n = 0 THEN DoubleZero
    ELSE CHOOSE res \in { OddQuotient(n, d \div (2^t), t) : t \in {TwoPower(d)} } : TRUE

\* Mantissas while dividing: twice r, a < b, and a - b for a >= b.
Twice4(r) ==
    << (2 * r[1]) % LimbBase,
       ((2 * r[2]) % LimbBase) + (r[1] \div (LimbBase \div 2)),
       ((2 * r[3]) % LimbBase) + (r[2] \div (LimbBase \div 2)),
       (2 * r[4]) + (r[3] \div (LimbBase \div 2)) >>
Less4(a, b) ==
    \/ a[4] < b[4]
    \/ a[4] = b[4] /\ a[3] < b[3]
    \/ a[4] = b[4] /\ a[3] = b[3] /\ a[2] < b[2]
    \/ a[4] = b[4] /\ a[3] = b[3] /\ a[2] = b[2] /\ a[1] < b[1]
Minus4(a, b) ==
    LET b1 == IF a[1] < b[1] THEN 1 ELSE 0
        b2 == IF a[2] - b1 < b[2] THEN 1 ELSE 0
        b3 == IF a[3] - b2 < b[3] THEN 1 ELSE 0
    IN  << (a[1] - b[1] + LimbBase) % LimbBase,
           (a[2] - b1 - b[2] + LimbBase) % LimbBase,
           (a[3] - b2 - b[3] + LimbBase) % LimbBase,
           a[4] - b3 - b[4] >>

\* The next n digits of the quotient of the mantissas: r is the remainder,
\* below d, and q the digits found so far.
RECURSIVE QuotientLimb(_, _, _, _)
QuotientLimb(r, d, q, n) ==
    IF n = 0 THEN [r |-> r, q |-> q]
    ELSE CHOOSE res \in {
             IF Less4(r2, d)
             THEN QuotientLimb(r2, d, 2 * q, n - 1)
             ELSE QuotientLimb(Minus4(r2, d), d, 2 * q + 1, n - 1) :
             r2 \in {Twice4(r)} } : TRUE

\* a / b for doubles, b > 0: the integer part of a.m * 2^56 / b.m, limb by limb.
DoubleDivide(a, b) ==
    IF a = DoubleZero THEN DoubleZero
    ELSE CHOOSE res \in {
             CHOOSE r1 \in {
                 CHOOSE r2 \in {
                     CHOOSE r3 \in {
                         CHOOSE r4 \in {
                             Rounded(<<q4.q, q3.q, q2.q, q1.q, q0.q, 0, 0, 0>>,
                                     a.x - b.x - 56, q4.r # ZeroMantissa) :
                             q4 \in {QuotientLimb(q3.r, b.m, 0, LimbBits)} } : TRUE :
                         q3 \in {QuotientLimb(q2.r, b.m, 0, LimbBits)} } : TRUE :
                     q2 \in {QuotientLimb(q1.r, b.m, 0, LimbBits)} } : TRUE :
                 q1 \in {QuotientLimb(q0.r, b.m, 0, LimbBits)} } : TRUE :
             q0 \in { IF Less4(a.m, b.m) THEN [r |-> a.m, q |-> 0]
                      ELSE [r |-> Minus4(a.m, b.m), q |-> 1] } } : TRUE

\* Math.floor(d) and Math.round(d) of a double below 2^31
IntegerOf(big) == CHOOSE n \in { b[1] + b[2] * LimbBase + b[3] * LimbBase * LimbBase : b \in {big} } : TRUE
MathFloor(d) ==
    IF d = DoubleZero \/ 0 - d.x > 53 THEN 0
    ELSE IF d.x >= 0 THEN IntegerOf(BigShiftLeft(Widen(d.m), d.x))
    ELSE IntegerOf(BigShiftRight(Widen(d.m), 0 - d.x))
MathRound(d) ==
    IF d = DoubleZero \/ 0 - d.x > 53 \/ d.x >= 0 THEN MathFloor(d)
    ELSE MathFloor(d) + BigBit(Widen(d.m), 0 - d.x - 1)

\* The decimal text num / den of NEXT_PUBLIC_FEE_PERCENTAGE, and the number
\* parseFloat makes of it: the double nearest to num / den.
Fraction(num, den) == [num |-> num, den |-> den]
ParseFloatFraction(text) == DoubleOfQuotient(text.num, text.den)

\* accounts.slice(from, to) returning one element more than asked for.
SliceOverlapping(seq, from, to) ==
    LET lo == IF from < 0 THEN 0 ELSE from
        hi == IF to + 1 < Len(seq) THEN to + 1 ELSE Len(seq)
    IN  IF hi <= lo THEN <<>> ELSE [k \in 1..(hi - lo) |-> seq[lo + k]]

\* accounts.slice(from, to) with 0-based bounds, as a sequence.
Slice(seq, from, to) ==
    LET lo == IF from < 0 THEN 0 ELSE from
        hi == Min(to, Len(seq))
    IN  IF hi <= lo THEN <<>> ELSE [k \in 1..(hi - lo) |-> seq[lo + k]]

RECURSIVE SumRent(_)
SumRent(batch) ==
    IF Len(batch) = 0 THEN 0 ELSE batch[1].rentLamports + SumRent(Tail(batch))

\* The fee of a batch rounded up instead of down.
FeeLamportsRoundedUp(batchLamports, feePercentage) ==
    CHOOSE r \in { IF DoubleOf(MathFloor(product)) = product THEN MathFloor(product)
                   ELSE MathFloor(product) + 1 :
                   product \in { DoubleTimes(lamports, feePercentage) :
                                 lamports \in {DoubleOf(batchLamports)} } } : TRUE

\* Math.floor(batchLamports * feePercentage)
FeeLamports(batchLamports, feePercentage) ==
    CHOOSE r \in { MathFloor(product) :
                   product \in { DoubleTimes(lamports, feePercentage) :
                                 lamports \in {DoubleOf(batchLamports)} } } : TRUE

\* An instruction: its kind and, by kind, the account closed with the
\* destination of its balance, its authority and the program addressed, or
\* the two ends and the amount of a transfer.
Instruction(kind) ==
    [kind |-> kind, account |-> 0, destination |-> "", authority |-> "",
     programId |-> "", fromPubkey |-> "", toPubkey |-> "", lamports |-> 0]

\* The refund destination ignoring the custom destination.
RentDestinationAlwaysOwner(customDestination, owner) == owner

\* customDestination || owner
RentDestination(customDestination, owner) ==
    IF customDestination # Undefined THEN customDestination ELSE owner

\* ComputeBudgetProgram.setComputeUnitLimit and setComputeUnitPrice (345-354)
BudgetInstructions ==
    << Instruction("setComputeUnitLimit"), Instruction("setComputeUnitPrice") >>

\* createCloseAccountInstruction(account.address, rentDestination, owner, [],
\* account.programId)
CloseInstruction(account, rentDestination, owner) ==
    [Instruction("closeAccount") EXCEPT !.account = account.address,
                                        !.destination = rentDestination,
                                        !.authority = owner,
                                        !.programId = account.programId]

\* A builder that attaches no fee transfer.
NoFeeTransfer(batch, owner, feeRecipient, feePercentage) == <<>>

\* The fee transfer of one batch (368-382): the instructions it adds.
FeeTransfer(batch, owner, feeRecipient, feePercentage) ==
    IF feeRecipient # Undefined /\ feePercentage # DoubleZero
    THEN CHOOSE added \in {
             IF feeLamports > 0
             THEN << [Instruction("transfer") EXCEPT !.fromPubkey = owner,
                                                     !.toPubkey = feeRecipient,
                                                     !.lamports = feeLamports] >>
             ELSE <<>> :
             feeLamports \in { FeeLamports(batchLamports, feePercentage) :
                               batchLamports \in {SumRent(batch)} } } : TRUE
    ELSE <<>>

\* A blockhash that differs from batch to batch.
RecentBlockhashPerBatch(latest, from) == latest.blockhash + from

\* transaction.recentBlockhash = blockhash, for the batch starting at `from`.
RecentBlockhash(latest, from) == latest.blockhash

\* One transaction of the builder: the two compute-budget directives, one
\* close instruction per account of the batch, then the fee transfer.
BuildTransaction(batch, from, owner, feeRecipient, feePercentage, rentDestination, latest) ==
    [recentBlockhash |-> RecentBlockhash(latest, from),
     lastValidBlockHeight |-> latest.lastValidBlockHeight,
     feePayer |-> owner,
     instructions |->
        BudgetInstructions
        \o [k \in 1..Len(batch) |-> CloseInstruction(batch[k], rentDestination, owner)]
        \o FeeTransfer(batch, owner, feeRecipient, feePercentage)]

\* The batching loop: for (i = 0; i < accounts.length; i += MAX_ACCOUNTS_PER_TX).
RECURSIVE BatchLoop(_, _, _, _, _, _, _, _)
BatchLoop(accts, from, maxPerTx, owner, feeRecipient, feePercentage, rentDestination, latest) ==
    IF from < Len(accts)
    THEN << BuildTransaction(Slice(accts, from, from + maxPerTx), from, owner,
                             feeRecipient, feePercentage, rentDestination, latest) >>
         \o BatchLoop(accts, from + maxPerTx, maxPerTx, owner, feeRecipient,
                      feePercentage, rentDestination, latest)
    ELSE <<>>

\* createCloseAccountTransactions, once getLatestBlockhash has returned
\* `latest`; maxPerTx is MAX_ACCOUNTS_PER_TX.
CreateCloseAccountTransactions(accts, owner, feeRecipient, feePercentage, customDestination, maxPerTx, latest) ==
    CHOOSE built \in { BatchLoop(accts, 0, maxPerTx, owner, feeRecipient, percentage,
                                 RentDestination(customDestination, owner), latest) :
                       percentage \in {feePercentage} } : TRUE

\* The instructions of one kind in a transaction, in order.
InstructionsOf(tx, kind) == SelectSeq(tx.instructions, LAMBDA ins : ins.kind = kind)

\* The accounts a transaction closes (the targets of its close instructions).
ClosedBy(tx) ==
    { tx.instructions[k].account :
        k \in { j \in 1..Len(tx.instructions) : tx.instructions[j].kind = "closeAccount" } }

\* ----------------------------------------------------------- scan: values

\* The processing cap of a scan.
MAX_ACCOUNTS_TO_PROCESS == 100

\* JavaScript values of the raw records: undefined, null, NaN, a number
\* v / 10^e, or the decimal string of the integer v.
JsUndefined == [t |-> "undefined", v |-> 0, e |-> 0]
JsNull == [t |-> "null", v |-> 0, e |-> 0]
JsNaN == [t |-> "NaN", v |-> 0, e |-> 0]
JsNum(n) == [t |-> "number", v |-> n, e |-> 0]
JsStr(n) == [t |-> "string", v |-> n, e |-> 0]

\* ToBoolean: the operand test of ||, ?: and if.  (The strings of the model
\* are non-empty, so every string is truthy, "0" included.)
Truthy(x) ==
    CASE x.t = "number" -> x.v # 0
      [] x.t = "string" -> TRUE
      [] OTHER -> FALSE

\* a || b
JsOr(a, b) == IF Truthy(a) THEN a ELSE b

\* parseFloat
ParseFloat(x) ==
    CASE x.t = "number" -> x
      [] x.t = "string" -> [t |-> "number", v |-> x.v, e |-> 0]
      [] OTHER -> JsNaN

\* x / Math.pow(10, d)
DivPow10(x, d) == IF x.t = "number" THEN [x EXCEPT !.e = x.e + d] ELSE JsNaN

\* x === 0 and x === '0'
IsNumberZero(x) == x.t = "number" /\ x.v = 0
IsStringZero(x) == x.t = "string" /\ x.v = 0

\* Mint strings of the model: whether new PublicKey(mint) accepts them and
\* whether their lower-case form ends with 'pump'.  NoMint is an absent mint.
MintPlain == "So11111111111111111111111111111111111111112"
MintPump == "CzLSujWBLFsSjncfkh59rUFqvafWcY5tzedWJSuypump"
NoMint == "undefined"
\* The address string of a token account as the indexing API reports it.
TokenAccountAddress == "7xKXtg2CW87d97TXJSDpbD5jBkheTqA83TZRuJosgAsU"
IsValidPublicKey(text) ==
    text \in {MintPlain, MintPump, WalletOwner, FeeWallet, CustomWallet, TokenAccountAddress}
EndsWithPump(text) == text = MintPump

\* program_id strings of an indexing-API record ("" when absent): the
\* address of either token program, or a label naming the newer one.
ProgramIdLegacy == "TokenkegQfeZyiNwAJbNbGKPFXCWuBvf9Ss623VQ5DA"
ProgramIdLabel2022 == "spl-token-2022"
\* acc.program_id?.includes('2022'): of the strings above only the label
\* contains the text 2022.
Includes2022(text) == text = ProgramIdLabel2022

\* new PublicKey(acc.address) of line 179 throws on an address that is not a
\* public key; the map of 178-197 runs outside any try.
DasMapThrows(list) == \E k \in 1..Len(list) : ~IsValidPublicKey(list[k].address)

\* The map of 178-197: one indexing-API record into the common shape.  The
\* PublicKey of a record's address is identified by the record's position.
NormalizeDas(acc, position) ==
    [pubkey |-> position,
     lamports |-> IF acc.lamports # 0 THEN acc.lamports ELSE TOKEN_ACCOUNT_RENT_LAMPORTS,
     mint |-> acc.mint,
     state |-> IF acc.frozen THEN "frozen" ELSE "initialized",
     amount |-> JsOr(acc.amount, JsStr(0)),
     uiAmount |-> IF acc.delegated_amount # 0
                  THEN DivPow10(ParseFloat(acc.amount), acc.decimals)
                  ELSE JsNum(0),
     programId |-> IF Includes2022(acc.program_id)
                   THEN TOKEN_2022_PROGRAM_ID ELSE TOKEN_PROGRAM_ID]

\* The spread of 209-210: one RPC record tagged with its program.
NormalizeRpc(a, position, program) ==
    [pubkey |-> position,
     lamports |-> a.lamports,
     mint |-> a.mint,
     state |-> a.state,
     amount |-> a.amount,
     uiAmount |-> a.uiAmount,
     programId |-> program]

\* The emptiness test of line 235, on the values of lines 224-225.
IsEmpty(tokenAmount) ==
    LET uiAmount == JsOr(tokenAmount.uiAmount, JsNum(0))
        rawAmount == JsOr(tokenAmount.amount, JsStr(0))
    IN  IsNumberZero(uiAmount) \/ IsStringZero(rawAmount)

\* Classify without the frozen test of 228-232.
ClassifyWithoutFrozenCheck(rec) ==
    IF rec.mint = NoMint THEN "skipped"
    ELSE IF ~IsEmpty([amount |-> rec.amount, uiAmount |-> rec.uiAmount]) THEN "skipped"
    ELSE IF ~IsValidPublicKey(rec.mint) THEN "skipped"
    ELSE "closeable"

\* One iteration of the classification loop (217-256): "frozen", "skipped"
\* or "closeable".
Classify(rec) ==
    IF rec.mint = NoMint THEN "skipped"              \* toLowerCase throws
    ELSE IF rec.state = "frozen" THEN "frozen"
    ELSE IF ~IsEmpty([amount |-> rec.amount, uiAmount |-> rec.uiAmount]) THEN "skipped"
    ELSE IF ~IsValidPublicKey(rec.mint) THEN "skipped"   \* new PublicKey throws
    ELSE "closeable"

\* A closeable record that carries the default rent instead of the
\* account's lamports.
CloseableOfDefaultRent(rec) ==
    [address |-> rec.pubkey,
     mint |-> rec.mint,
     rentLamports |-> TOKEN_ACCOUNT_RENT_LAMPORTS,
     programId |-> rec.programId,
     isPumpToken |-> EndsWithPump(rec.mint)]

\* The record pushed to closeableAccounts (245-252).
CloseableOf(rec) ==
    [address |-> rec.pubkey,
     mint |-> rec.mint,
     rentLamports |-> rec.lamports,
     programId |-> rec.programId,
     isPumpToken |-> EndsWithPump(rec.mint)]

\* closeableAccounts.sort((a, b) => b.rentLamports - a.rentLamports): stable,
\* descending by rent.  The element at position k of seq goes to the
\* position that counts the elements of greater rent and the earlier
\* elements of equal rent.
SortedPosition(seq, k) ==
    1 + Cardinality({ j \in 1..Len(seq) :
                        \/ seq[j].rentLamports > seq[k].rentLamports
                        \/ seq[j].rentLamports = seq[k].rentLamports /\ j < k })

\* The closeable accounts left in the order the data source listed them.
Unsorted(seq) == seq

SortByRentDesc(seq) ==
    LET position == [k \in 1..Len(seq) |-> SortedPosition(seq, k)]
    IN  [p \in 1..Len(seq) |-> seq[CHOOSE k \in 1..Len(seq) : position[k] = p]]

\* The counter of a class left alone by the catch branch of the loop.
CountOfOutsideCatch(all, class) ==
    Cardinality({ k \in 1..Len(all) :
                    /\ Classify(all[k]) = class
                    /\ class = "skipped" =>
                          ~IsEmpty([amount |-> all[k].amount, uiAmount |-> all[k].uiAmount]) })

CountOf(all, class) == Cardinality({k \in 1..Len(all) : Classify(all[k]) = class})

\* A ScanResult whose totals are all computed after the truncation.
ScanResultOfTotalsAfterTruncation(all) ==
    LET picked == SelectSeq(all, LAMBDA rec : Classify(rec) = "closeable")
        closeableAccounts == SortByRentDesc([k \in 1..Len(picked) |-> CloseableOf(picked[k])])
        truncatedAccounts == Slice(closeableAccounts, 0, MAX_ACCOUNTS_TO_PROCESS)
    IN  [totalAccounts |-> Len(all),
         closeableAccounts |-> truncatedAccounts,
         totalReclaimableLamports |-> SumRent(truncatedAccounts),
         skippedAccounts |-> CountOf(all, "skipped"),
         frozenAccounts |-> CountOf(all, "frozen"),
         isTruncated |-> Len(closeableAccounts) > MAX_ACCOUNTS_TO_PROCESS,
         totalCloseableCount |-> Len(truncatedAccounts),
         estimatedTotalLamports |-> SumRent(truncatedAccounts)]

\* The ScanResult built from the normalized records (214-301).
ScanResultOf(all) ==
    LET picked == SelectSeq(all, LAMBDA rec : Classify(rec) = "closeable")
        closeableAccounts == SortByRentDesc([k \in 1..Len(picked) |-> CloseableOf(picked[k])])
        truncatedAccounts == Slice(closeableAccounts, 0, MAX_ACCOUNTS_TO_PROCESS)
    IN  [totalAccounts |-> Len(all),
         closeableAccounts |-> truncatedAccounts,
         totalReclaimableLamports |-> SumRent(truncatedAccounts),
         skippedAccounts |-> CountOf(all, "skipped"),
         frozenAccounts |-> CountOf(all, "frozen"),
         isTruncated |-> Len(closeableAccounts) > MAX_ACCOUNTS_TO_PROCESS,
         totalCloseableCount |-> Len(closeableAccounts),
         estimatedTotalLamports |-> SumRent(closeableAccounts)]

\* ------------------------------------------------------------- hook values

\* Amounts in SOL are JavaScript numbers.
\* lamports / 1e9
Sol(lamports) == DoubleOfQuotient(lamports, 1000000000)
\* a * b, a - b and a + b
SolTimes(a, b) == CHOOSE r \in { DoubleTimes(x, y) : x \in {a}, y \in {b} } : TRUE
SolMinus(a, b) == CHOOSE r \in { DoubleMinus(x, y) : x \in {a}, y \in {b} } : TRUE
SolPlus(a, b) == CHOOSE r \in { DoublePlus(x, y) : x \in {a}, y \in {b} } : TRUE

initialProgress == [status |-> "idle", currentTx |-> 0, totalTx |-> 0]
initialStats == [totalSolPrinted |-> Sol(0), totalAccountsClosed |-> 0, printCount |-> 0]

\* null, as the value of lastResult or of print's promise
NullResult == [isNull |-> TRUE]
\* print's promise while the attempt is still running
Pending == [isPending |-> TRUE]

\* A transaction's failure: its number and either the thrown error or the
\* on-chain error of its confirmation.
NoFailure == [tx |-> 0, how |-> "none", error |-> [message |-> "", logs |-> <<>>]]
Threw(txNo, error) == [tx |-> txNo, how |-> "threw", error |-> error]
FailedOnChain(txNo) == [tx |-> txNo, how |-> "onchain", error |-> [message |-> "", logs |-> <<>>]]

\* A failure result that still reports one closed account.
FailureResultCountingOne(message) ==
    [success |-> FALSE, accountsClosed |-> 1, lamportsReclaimed |-> 0,
     solReclaimed |-> Sol(0), solKept |-> Sol(0), feePaid |-> Sol(0),
     signatures |-> <<>>, error |-> message]

\* The result literal shared by every failure path of print.
FailureResult(message) ==
    [success |-> FALSE, accountsClosed |-> 0, lamportsReclaimed |-> 0,
     solReclaimed |-> Sol(0), solKept |-> Sol(0), feePaid |-> Sol(0),
     signatures |-> <<>>, error |-> message]

\* A selection of n accounts, the first h holding the standard rent and the
\* others a smaller balance (the order a scan returns them in).
Selection(n, h) ==
    [k \in 1..n |-> [address |-> k,
                     rentLamports |-> IF k <= h THEN TOKEN_ACCOUNT_RENT_LAMPORTS ELSE 1001,
                     programId |-> TOKEN_PROGRAM_ID]]

Selections == { Selection(n, h) : n \in 0..MaxAccounts, h \in 0..1 }

\* NEXT_PUBLIC_FEE_PERCENTAGE: the default '0.10', and '0' and '0.0000001'.
DefaultFeePercentage == Fraction(1, 10)
ZeroFeePercentage == Fraction(0, 1)
TinyFeePercentage == Fraction(1, 10000000)

\* FEE_ENABLED (constants.ts)
FEE_ENABLED == cfgFeeRecipient # "" /\ cfgFeeRecipient # PlaceholderRecipient

\* feeRecipientPubkey (143-151): undefined unless the fee is enabled and the
\* recipient parses as a public key.
FeeRecipientPubkey ==
    IF ~FEE_ENABLED \/ cfgFeeRecipient = "" THEN Undefined
    ELSE IF IsValidPublicKey(cfgFeeRecipient) THEN cfgFeeRecipient
    ELSE Undefined

\* FEE_PERCENTAGE = parseFloat(process.env.NEXT_PUBLIC_FEE_PERCENTAGE || '0.10')
FEE_PERCENTAGE == ParseFloatFraction(cfgFeePercentage)

\* FEE_ENABLED ? FEE_PERCENTAGE : 0
FeePercentageArg == IF FEE_ENABLED THEN FEE_PERCENTAGE ELSE DoubleZero

\* The parse of print's customDestination argument (173-182); "" is an
\* absent argument.
ParseDestination(customDestination) ==
    IF customDestination # "" /\ IsValidPublicKey(customDestination)
    THEN customDestination
    ELSE Undefined

\* ----------------------------------------------------------- print: actions

\* The prerequisite checks with the selection tested first.
PreconditionErrorSelectionFirst(pk, sa, so, n) ==
    IF n = 0 THEN "No accounts to close"
    ELSE IF ~pk THEN "Wallet not connected"
    ELSE IF ~sa /\ ~so THEN "Wallet does not support transaction signing"
    ELSE Null

\* The prerequisite checks of print (183-224), in their order: the error of
\* the first one violated, or Null.
PreconditionError(pk, sa, so, n) ==
    IF ~pk THEN "Wallet not connected"
    ELSE IF ~sa /\ ~so THEN "Wallet does not support transaction signing"
    ELSE IF n = 0 THEN "No accounts to close"
    ELSE Null

\* print(accounts, customDestination): the parse of the destination, the
\* precondition checks and the step to 'preparing'.
Start(pk, sa, so, accts, customDestination) ==
    /\ pc = "idle"
    /\ attempts' = attempts + 1
    /\ publicKey' = pk
    /\ signAllTransactions' = sa
    /\ signTransaction' = so
    /\ accounts' = accts
    /\ destinationPubkey' = ParseDestination(customDestination)
    /\ transactions' = <<>>
    /\ signedTransactions' = <<>>
    /\ i' = 0
    /\ signatures' = <<>>
    /\ confirmedSignatures' = <<>>
    /\ accountsClosedSoFar' = 0
    /\ failedTransactions' = 0
    /\ lastError' = Null
    /\ lastFailure' = NoFailure
    /\ calls' = <<>>
    /\ statsAtStart' = sessionStats
    /\ IF PreconditionError(pk, sa, so, Len(accts)) # Null
       THEN /\ lastResult' = FailureResult(PreconditionError(pk, sa, so, Len(accts)))
            /\ returned' = NullResult
            /\ pc' = "idle"
            /\ seenStatus' = <<>>
            /\ UNCHANGED progress
       ELSE /\ progress' = [progress EXCEPT !.status = "preparing",
                                            !.currentTx = 0, !.totalTx = 0]
            /\ seenStatus' = <<"preparing">>
            /\ returned' = Pending
            /\ pc' = "delay"
            /\ UNCHANGED lastResult
    /\ UNCHANGED <<otherVars, scanVars, cfgVars, sessionStats>>

\* The STATUS_UPDATE_DELAY timer fires; the builder asks for a blockhash.
PrepareDelay ==
    /\ pc = "delay"
    /\ pc' = "blockhash"
    /\ calls' = Append(calls, <<"getLatestBlockhash", 0>>)
    /\ UNCHANGED <<otherVars, scanVars, cfgVars, hookVars, localVars, returned, attempts,
                   statsAtStart, seenStatus, lastFailure>>

\* The status update of a failed attempt leaving the status idle.
ErrorProgressAsIdle == [progress EXCEPT !.status = "idle"]

\* updateProgress({ status: 'error', ... })
ErrorProgress == [progress EXCEPT !.status = "error"]

\* The outer catch of print: the attempt ends as an error.
OuterCatch(message, cl) ==
    /\ lastResult' = FailureResult(message)
    /\ returned' = FailureResult(message)
    /\ progress' = ErrorProgress
    /\ seenStatus' = Append(seenStatus, ErrorProgress.status)
    /\ calls' = cl
    /\ pc' = "idle"
    /\ UNCHANGED sessionStats

\* getLatestBlockhash throws: createCloseAccountTransactions rejects.
BlockhashThrow(error) ==
    /\ pc = "blockhash"
    /\ OuterCatch(IF error.message # "" THEN error.message ELSE "Unknown error occurred",
                  Append(calls, <<"getLatestBlockhashThrew", 0>>))
    /\ lastFailure' = Threw(0, error)
    /\ UNCHANGED <<otherVars, scanVars, cfgVars, localVars, attempts, statsAtStart>>

\* getLatestBlockhash returns { blockhash, lastValidBlockHeight }: the
\* transactions are built and the signer asked.
BlockhashReturn(latest) ==
    /\ pc = "blockhash"
    /\ transactions' = CreateCloseAccountTransactions(accounts, WalletOwner,
                            FeeRecipientPubkey, FeePercentageArg, destinationPubkey,
                            cfgMaxPerTx, latest)
    /\ progress' = [progress EXCEPT !.status = "awaiting_signature",
                                    !.totalTx = Len(transactions')]
    /\ seenStatus' = Append(seenStatus, "awaiting_signature")
    /\ IF signAllTransactions
       THEN /\ calls' = calls \o << <<"getLatestBlockhashReturned", 0>>,
                                    <<"signAllTransactions", 0>> >>
            /\ pc' = "signAll"
       ELSE /\ calls' = calls \o << <<"getLatestBlockhashReturned", 0>>,
                                    <<"signTransaction", 1>> >>
            /\ pc' = "signOne"
    /\ UNCHANGED <<otherVars, scanVars, cfgVars, lastResult, sessionStats, publicKey, signAllTransactions,
                   signTransaction, accounts, destinationPubkey, signedTransactions, i, signatures,
                   confirmedSignatures, accountsClosedSoFar, failedTransactions,
                   lastError, returned, attempts, statsAtStart, lastFailure>>

\* allSucceeded computed without looking at the failure counter.
AllSucceededIgnoringFailures(failed, hasConfirmedTransactions) == hasConfirmedTransactions

\* allSucceeded and partialSuccess (401-402).
AllSucceeded(failed, hasConfirmedTransactions) == failed = 0 /\ hasConfirmedTransactions
\* partialSuccess never set: an attempt with a confirmation counts as a success.
PartialSuccessNever(failed, hasConfirmedTransactions) == FALSE
PartialSuccess(failed, hasConfirmedTransactions) == hasConfirmedTransactions /\ failed > 0

\* The fee of a result charged whether or not the fee is enabled.
ActualFeeAlways(actualSol) == SolTimes(actualSol, ParseFloatFraction(DefaultFeePercentage))

\* actualFee = FEE_ENABLED ? actualSol * FEE_PERCENTAGE : 0
ActualFee(actualSol) ==
    IF FEE_ENABLED THEN SolTimes(actualSol, FEE_PERCENTAGE) ELSE Sol(0)

\* Math.floor(totalLamports * (actualAccountsClosed / accounts.length)), in
\* double arithmetic: the quotient is rounded, then the product.
ActualLamports(accts, actualAccountsClosed) ==
    CHOOSE r \in { MathFloor(product) :
                   product \in { DoubleTimes(totalLamports, proportion) :
                       totalLamports \in {DoubleOf(SumRent(accts))},
                       proportion \in {DoubleOfQuotient(actualAccountsClosed, Len(accts))} } } : TRUE

\* The session-stats update leaving the operation count alone.
StatsAfterWithoutCount(prev, actualAccountsClosed, actualUserSol) ==
    IF actualAccountsClosed > 0
    THEN [totalSolPrinted |-> SolPlus(prev.totalSolPrinted, actualUserSol),
          totalAccountsClosed |-> prev.totalAccountsClosed + actualAccountsClosed,
          printCount |-> prev.printCount]
    ELSE prev

\* if (actualAccountsClosed > 0) setSessionStats(prev => ...) (448-455)
StatsAfter(prev, actualAccountsClosed, actualUserSol) ==
    IF actualAccountsClosed > 0
    THEN [totalSolPrinted |-> SolPlus(prev.totalSolPrinted, actualUserSol),
          totalAccountsClosed |-> prev.totalAccountsClosed + actualAccountsClosed,
          printCount |-> prev.printCount + 1]
    ELSE prev

\* The reconciliation after the submission loop (useDegenPrinter.ts 399-466).
\* The stats the attempt's render saw when print was called.
StatsOfClosure == statsAtStart

\* prev of setSessionStats(prev => ...) (449): the stats at the update.
StatsBeforeUpdate == sessionStats

\* The signatures of a result listing every transaction that was sent.
ResultSignaturesAllSent(sent, confirmed) == sent

\* signatures: confirmedSignatures, of the result of a reconciled attempt (443).
ResultSignatures(sent, confirmed) == confirmed

\* The final progress status left at the last step before the reconciliation.
FinalProgressStatusStillConfirming(partialSuccess) == "confirming"

\* The status of the final progress update of a reconciled attempt (458).
FinalProgressStatus(partialSuccess) == IF partialSuccess THEN "partial_success" ELSE "success"

Finish(conf, closed, failed, lerr, signed, cl) ==
    LET hasConfirmedTransactions == Len(conf) > 0
        allSucceeded == AllSucceeded(failed, hasConfirmedTransactions)
        partialSuccess == PartialSuccess(failed, hasConfirmedTransactions)
        actualAccountsClosed == closed
        failure == FailureResult(IF lerr # Null THEN lerr ELSE "All transactions failed")
    IN  /\ calls' = cl
        /\ pc' = "idle"
        /\ IF ~hasConfirmedTransactions
           THEN /\ lastResult' = failure
                /\ returned' = failure
                /\ progress' = ErrorProgress
                /\ seenStatus' = Append(seenStatus, ErrorProgress.status)
                /\ UNCHANGED sessionStats
           ELSE \E actualLamports \in {ActualLamports(accounts, actualAccountsClosed)} :
                \E actualSol \in {Sol(actualLamports)} :
                \E actualFee \in {ActualFee(actualSol)} :
                \E actualUserSol \in {SolMinus(actualSol, actualFee)} :
                LET result == [success |-> allSucceeded,
                               accountsClosed |-> actualAccountsClosed,
                               lamportsReclaimed |-> actualLamports,
                               solReclaimed |-> actualSol,
                               solKept |-> actualUserSol,
                               feePaid |-> actualFee,
                               signatures |-> ResultSignatures(signatures, conf),
                               error |-> IF partialSuccess THEN FailedCountMessage(failed)
                                         ELSE Null]
                IN  /\ lastResult' = result
                    /\ returned' = result
                    /\ sessionStats' = StatsAfter(StatsBeforeUpdate, actualAccountsClosed,
                                                  actualUserSol)
                    /\ progress' = [progress EXCEPT
                            !.status = FinalProgressStatus(partialSuccess),
                            !.currentTx = Len(signed)]
                    /\ seenStatus' = Append(seenStatus, FinalProgressStatus(partialSuccess))

\* The head of the submission loop for index ni: either the next transaction
\* is sent, or the loop has ended and the attempt is reconciled.
LoopOrFinish(ni, conf, closed, failed, lerr, signed, prog, seen, cl) ==
    /\ confirmedSignatures' = conf
    /\ accountsClosedSoFar' = closed
    /\ failedTransactions' = failed
    /\ lastError' = lerr
    /\ IF ni < Len(signed)
       THEN /\ i' = ni
            /\ progress' = [prog EXCEPT !.status = "submitting", !.currentTx = ni + 1]
            /\ seenStatus' = Append(seen, "submitting")
            /\ calls' = Append(cl, <<"sendRawTransaction", ni + 1>>)
            /\ pc' = "send"
            /\ UNCHANGED <<lastResult, sessionStats, returned>>
       ELSE /\ i' = ni
            /\ Finish(conf, closed, failed, lerr, signed, cl)

\* Signing succeeded: 'submitting', the loop's locals, and the first send.
BeginSubmit(signed, cl) ==
    /\ signedTransactions' = signed
    /\ signatures' = <<>>
    /\ LoopOrFinish(0, <<>>, 0, 0, Null, signed,
                    [progress EXCEPT !.status = "submitting"],
                    Append(seenStatus, "submitting"), cl)

\* The signing catch reporting the rejection as an error.
ProgressAfterCancelAsError == [progress EXCEPT !.status = "error"]

\* updateProgress(initialProgress) of the signing catch (288).
ProgressAfterCancel == [progress EXCEPT !.status = initialProgress.status,
                                        !.currentTx = initialProgress.currentTx,
                                        !.totalTx = initialProgress.totalTx]

\* The signing catch: back to idle, the 'cancelled' result, nothing stored.
SignCancelled(cl) ==
    /\ progress' = ProgressAfterCancel
    /\ seenStatus' = Append(seenStatus, ProgressAfterCancel.status)
    /\ returned' = FailureResult("cancelled")
    /\ calls' = cl
    /\ pc' = "idle"
    /\ UNCHANGED <<lastResult, sessionStats, signedTransactions, i, signatures,
                   confirmedSignatures, accountsClosedSoFar, failedTransactions,
                   lastError>>

SignAllReturn ==
    /\ pc = "signAll"
    /\ BeginSubmit(transactions, Append(calls, <<"signAllTransactionsReturned", 0>>))
    /\ UNCHANGED <<otherVars, scanVars, cfgVars, publicKey, signAllTransactions, signTransaction, accounts, destinationPubkey,
                   transactions, attempts, statsAtStart, lastFailure>>

SignAllReject ==
    /\ pc = "signAll"
    /\ SignCancelled(Append(calls, <<"signAllTransactionsThrew", 0>>))
    /\ UNCHANGED <<otherVars, scanVars, cfgVars, publicKey, signAllTransactions, signTransaction, accounts, destinationPubkey,
                   transactions, attempts, statsAtStart, lastFailure>>

\* signTransaction returns for the next unsigned transaction.
SignOneReturn ==
    /\ pc = "signOne"
    /\ LET k == Len(signedTransactions) + 1
           signed == Append(signedTransactions, transactions[k])
           cl == Append(calls, <<"signTransactionReturned", k>>)
       IN  IF k < Len(transactions)
           THEN /\ signedTransactions' = signed
                /\ calls' = Append(cl, <<"signTransaction", k + 1>>)
                /\ UNCHANGED <<hookVars, i, signatures, confirmedSignatures,
                               accountsClosedSoFar, failedTransactions, lastError,
                               pc, returned, seenStatus>>
           ELSE BeginSubmit(signed, cl)
    /\ UNCHANGED <<otherVars, scanVars, cfgVars, publicKey, signAllTransactions, signTransaction, accounts, destinationPubkey,
                   transactions, attempts, statsAtStart, lastFailure>>

\* A rejection after some transactions were signed submitting those.
SignOneRejectSubmittingSigned ==
    /\ pc = "signOne"
    /\ IF Len(signedTransactions) > 0
       THEN BeginSubmit(signedTransactions,
                        Append(calls, <<"signTransactionThrew", Len(signedTransactions) + 1>>))
       ELSE SignCancelled(Append(calls, <<"signTransactionThrew", 1>>))
    /\ UNCHANGED <<otherVars, scanVars, cfgVars, publicKey, signAllTransactions, signTransaction,
                   accounts, destinationPubkey, transactions, attempts, statsAtStart,
                   lastFailure>>

\* signTransaction rejects: the signing catch.
SignOneReject ==
    /\ pc = "signOne"
    /\ SignCancelled(Append(calls, <<"signTransactionThrew", Len(signedTransactions) + 1>>))
    /\ UNCHANGED <<otherVars, scanVars, cfgVars, publicKey, signAllTransactions, signTransaction, accounts, destinationPubkey,
                   transactions, attempts, statsAtStart, lastFailure>>

\* sendRawTransaction returns a signature: the confirmation wait starts.
SendReturn ==
    /\ pc = "send"
    /\ signatures' = Append(signatures, i + 1)
    /\ progress' = [progress EXCEPT !.status = "confirming"]
    /\ seenStatus' = Append(seenStatus, "confirming")
    /\ calls' = calls \o << <<"sendRawTransactionReturned", i + 1>>,
                            <<"confirmTransaction", i + 1>> >>
    /\ pc' = "confirm"
    /\ UNCHANGED <<otherVars, scanVars, cfgVars, lastResult, sessionStats, publicKey, signAllTransactions,
                   signTransaction, accounts, destinationPubkey, transactions, signedTransactions, i,
                   confirmedSignatures, accountsClosedSoFar, failedTransactions,
                   lastError, returned, attempts, statsAtStart, lastFailure>>

\* The abort test without the index: any throw before a confirmation aborts.
ShouldAbortAtAnyIndex(index, confirmedCount) == confirmedCount = 0

\* The loop's increment skipping a transaction.
NextIndexSkipping(index) == index + 2

\* The abort test of the catch branch (393).
ShouldAbort(index, confirmedCount) == index = 0 /\ confirmedCount = 0

\* The loop's i++.
NextIndex(index) == index + 1

\* The catch branch of one loop iteration (362-396).
CatchBranch(error, cl) ==
    LET errorMessage == NormalizeErrorMessage(error)
    IN  IF ShouldAbort(i, Len(confirmedSignatures))
        THEN /\ failedTransactions' = failedTransactions + 1
             /\ lastError' = errorMessage
             /\ OuterCatch(errorMessage, cl)
             /\ UNCHANGED <<i, confirmedSignatures, accountsClosedSoFar>>
        ELSE LoopOrFinish(NextIndex(i), confirmedSignatures, accountsClosedSoFar,
                          failedTransactions + 1, errorMessage, signedTransactions,
                          progress, seenStatus, cl)

SendThrow(error) ==
    /\ pc = "send"
    /\ CatchBranch(error, Append(calls, <<"sendRawTransactionThrew", i + 1>>))
    /\ lastFailure' = Threw(i + 1, error)
    /\ UNCHANGED <<otherVars, scanVars, cfgVars, publicKey, signAllTransactions, signTransaction, accounts, destinationPubkey,
                   transactions, signedTransactions, signatures, attempts,
                   statsAtStart>>

ConfirmThrow(error) ==
    /\ pc = "confirm"
    /\ CatchBranch(error, Append(calls, <<"confirmTransactionThrew", i + 1>>))
    /\ lastFailure' = Threw(i + 1, error)
    /\ UNCHANGED <<otherVars, scanVars, cfgVars, publicKey, signAllTransactions, signTransaction, accounts, destinationPubkey,
                   transactions, signedTransactions, signatures, attempts,
                   statsAtStart>>

\* The accounts counted for a confirmed transaction (353-360).
AccountsInThisBatch(n, closedSoFar) == Min(HardcodedBatch, n - closedSoFar)

\* confirmTransaction returns, with or without an on-chain error.
ConfirmReturn(err) ==
    /\ pc = "confirm"
    /\ LET cl == Append(calls, <<IF err THEN "confirmTransactionReturnedErr"
                                 ELSE "confirmTransactionReturnedOk", i + 1>>)
       IN  IF err
           THEN LoopOrFinish(NextIndex(i), confirmedSignatures, accountsClosedSoFar,
                             failedTransactions + 1, OnChainMessage(i + 1),
                             signedTransactions, progress, seenStatus, cl)
           ELSE LoopOrFinish(NextIndex(i), Append(confirmedSignatures, signatures[Len(signatures)]),
                             accountsClosedSoFar
                                + AccountsInThisBatch(Len(accounts), accountsClosedSoFar),
                             failedTransactions, lastError,
                             signedTransactions, progress, seenStatus, cl)
    /\ lastFailure' = IF err THEN FailedOnChain(i + 1) ELSE lastFailure
    /\ UNCHANGED <<otherVars, scanVars, cfgVars, publicKey, signAllTransactions, signTransaction, accounts, destinationPubkey,
                   transactions, signedTransactions, signatures, attempts,
                   statsAtStart>>

\* A reset that also clears the session's counters.
ResetClearingStats ==
    /\ progress' = initialProgress
    /\ lastResult' = NullResult
    /\ sessionStats' = initialStats
    /\ UNCHANGED <<otherVars, scanVars, cfgVars, localVars, pc, returned, calls, attempts,
                   statsAtStart, seenStatus, lastFailure>>

\* reset(): progress and lastResult back to their initial values.
Reset ==
    /\ progress' = initialProgress
    /\ lastResult' = NullResult
    /\ UNCHANGED <<otherVars, scanVars, cfgVars, sessionStats, localVars, pc, returned, calls, attempts,
                   statsAtStart, seenStatus, lastFailure>>

\* ------------------------------------------------------------- scan: inputs

\* Indexing-API records: absent lamports are 0, an absent program_id is "".
DasRecord(mint, lamports, program_id, frozen, amount, delegated_amount) ==
    [address |-> TokenAccountAddress,
     mint |-> mint, lamports |-> lamports, program_id |-> program_id,
     frozen |-> frozen, amount |-> amount, decimals |-> 6,
     delegated_amount |-> delegated_amount]

\* Records without lamports and program_id, frozen or not, over every shape
\* of amount and delegated_amount; records of a pump mint labelled as
\* Token-2022; records without a mint; records whose program_id is the
\* address of a token program; and empty records whose address is absent or
\* is not a public key.
DasRecords ==
    { DasRecord(MintPlain, 0, "", f, a, d) :
         f \in BOOLEAN, a \in {JsUndefined, JsNum(0), JsNum(7), JsStr(7)}, d \in {0, 3} }
    \cup { DasRecord(MintPump, 1000, ProgramIdLabel2022, FALSE, a, d) :
         a \in {JsNum(0), JsStr(7)}, d \in {0, 3} }
    \cup { DasRecord(NoMint, 0, ProgramIdLegacy, f, JsNum(0), 0) : f \in BOOLEAN }
    \cup { DasRecord(MintPlain, 1000, p, FALSE, a, 3) :
         p \in {TOKEN_2022_PROGRAM_ID, ProgramIdLegacy}, a \in {JsUndefined, JsStr(7)} }
    \cup { [DasRecord(MintPlain, 0, "", FALSE, JsNum(0), 0) EXCEPT !.address = a] :
         a \in {Undefined, NotBase58} }

\* Parsed RPC records: the raw amount is a string, uiAmount a number or null.
RpcRecord(mint, lamports, state, tokenAmount) ==
    [mint |-> mint, lamports |-> lamports, state |-> state,
     amount |-> tokenAmount.amount, uiAmount |-> tokenAmount.uiAmount]

RpcRecords ==
    { RpcRecord(MintPlain, TOKEN_ACCOUNT_RENT_LAMPORTS, st, t) :
         st \in {"initialized", "frozen"},
         t \in { [amount |-> JsStr(0), uiAmount |-> JsNum(0)],
                 [amount |-> JsStr(7), uiAmount |-> DivPow10(JsNum(7), 6)],
                 [amount |-> JsStr(7), uiAmount |-> JsNull] } }
    \cup { RpcRecord(MintPump, 1000, "initialized", t) :
         t \in { [amount |-> JsStr(0), uiAmount |-> JsNum(0)],
                 [amount |-> JsStr(7), uiAmount |-> JsNull] } }
    \cup { RpcRecord(NoMint, 1000, "initialized", [amount |-> JsStr(0), uiAmount |-> JsNum(0)]) }

\* Large indexing-API responses, around the processing cap.  The lamports
\* of record k follow a pattern (rising, falling, absent, alternating,
\* scattered), and every fiftieth record is frozen or holds tokens, or none.
LargeRecordCounts == (MAX_ACCOUNTS_TO_PROCESS - 3)..MaxLargeRecords
RentPatterns == {"rising", "falling", "absent", "alternating", "scattered"}
MixPatterns == {"allEmpty", "someFrozen", "someHeld"}
LargeLamports(k, rents) ==
    CASE rents = "rising" -> 1000 + k
      [] rents = "falling" -> 2000 - k
      [] rents = "absent" -> 0
      [] rents = "alternating" -> IF k % 2 = 0 THEN 1000 ELSE TOKEN_ACCOUNT_RENT_LAMPORTS
      [] OTHER -> 1 + ((k * 37) % 101)
LargeRecord(k, rents, mix) ==
    IF k % 50 = 0 /\ mix = "someFrozen"
    THEN DasRecord(MintPlain, LargeLamports(k, rents), "", TRUE, JsNum(0), 0)
    ELSE IF k % 50 = 0 /\ mix = "someHeld"
    THEN DasRecord(MintPlain, LargeLamports(k, rents), "", FALSE, JsStr(7), 3)
    ELSE DasRecord(IF k % 3 = 0 THEN MintPump ELSE MintPlain,
                   LargeLamports(k, rents), "", FALSE, JsNum(0), 0)
LargeDasResponse(n, rents, mix) ==
    [kind |-> "ok", token_accounts |-> [k \in 1..n |-> LargeRecord(k, rents, mix)]]

ListsOf(S, n) == UNION { [1..k -> S] : k \in 0..n }

\* What the indexing-API request can produce (tryDASTokenAccounts 124-147).
DasFailures == {"fetchThrows", "notOk", "badJson", "errorField", "noTokenAccounts"}
DasResponses ==
    { [kind |-> k, token_accounts |-> <<>>] : k \in DasFailures }
    \cup { [kind |-> "ok", token_accounts |-> l] : l \in ListsOf(DasRecords, MaxRecords) }

\* What one getParsedTokenAccountsByOwner call can produce.
RpcResponses ==
    { [kind |-> "throws", value |-> <<>>] }
    \cup { [kind |-> "ok", value |-> l] : l \in ListsOf(RpcRecords, MaxRecords) }

NoResponse == [kind |-> "none"]

\* ------------------------------------------------------------ scan: actions

\* tryDASTokenAccounts: null on every failure, else the token_accounts array.
TryDASTokenAccounts(resp) ==
    IF resp.kind = "ok"
    THEN [isNull |-> FALSE, value |-> resp.token_accounts]
    ELSE [isNull |-> TRUE, value |-> <<>>]

\* connection.getParsedTokenAccountsByOwner(...).catch(() => ({ value: [] }))
CaughtValue(resp) == IF resp.kind = "ok" THEN resp.value ELSE <<>>

\* allAccounts on the indexing-API path and on the fallback path.
AllAccountsDas(list) == [k \in 1..Len(list) |-> NormalizeDas(list[k], k)]
AllAccountsRpc(spl, t22) ==
    [k \in 1..Len(spl) |-> NormalizeRpc(spl[k], k, TOKEN_PROGRAM_ID)]
    \o [k \in 1..Len(t22) |-> NormalizeRpc(t22[k], Len(spl) + k, TOKEN_2022_PROGRAM_ID)]

NoScanResult == [isNull |-> TRUE]

ScanIdle ==
    /\ scanPc = "idle"
    /\ dasResponse = NoResponse
    /\ splResponse = NoResponse
    /\ token2022Response = NoResponse
    /\ rpcSettled = <<>>
    /\ allAccounts = <<>>
    /\ scanResult = NoScanResult

\* scanWalletForCloseableAccounts is called: the indexing-API request goes out.
ScanStart ==
    /\ scanPc = "idle"
    /\ scanPc' = "das"
    /\ UNCHANGED <<printVars, dasResponse, splResponse, token2022Response, rpcSettled,
                   allAccounts, scanResult>>

\* The test of line 175 without the length test.
UseDasWhenNotNull(dasAccounts) == ~dasAccounts.isNull

\* if (dasAccounts && dasAccounts.length > 0)
UseDas(dasAccounts) == ~dasAccounts.isNull /\ Len(dasAccounts.value) > 0

\* The indexing-API request settles.  With at least one record the scan
\* normalizes and classifies them and returns, or rejects when the
\* normalization throws; otherwise both RPC listings are issued.
DasReturn(resp) ==
    /\ scanPc = "das"
    /\ dasResponse' = resp
    /\ LET dasAccounts == TryDASTokenAccounts(resp)
       IN  IF UseDas(dasAccounts)
           THEN IF DasMapThrows(dasAccounts.value)
                THEN /\ scanPc' = "threw"
                     /\ UNCHANGED <<allAccounts, scanResult>>
                ELSE /\ allAccounts' = AllAccountsDas(dasAccounts.value)
                     /\ scanResult' = ScanResultOf(allAccounts')
                     /\ scanPc' = "done"
           ELSE /\ scanPc' = "rpc"
                /\ UNCHANGED <<allAccounts, scanResult>>
    /\ UNCHANGED <<printVars, splResponse, token2022Response, rpcSettled>>

\* Promise.all over the two listings without their catch handlers: a
\* listing that throws rejects the scan at once.
AfterRpcFailFast(spl, t22) ==
    IF spl.kind = "throws" \/ t22.kind = "throws"
    THEN /\ scanPc' = "threw"
         /\ UNCHANGED <<allAccounts, scanResult>>
    ELSE IF spl.kind # "none" /\ t22.kind # "none"
    THEN /\ allAccounts' = AllAccountsRpc(CaughtValue(spl), CaughtValue(t22))
         /\ scanResult' = ScanResultOf(allAccounts')
         /\ scanPc' = "done"
    ELSE UNCHANGED <<allAccounts, scanResult, scanPc>>

\* Promise.all over the two listings: the scan continues when both settled.
AfterRpc(spl, t22) ==
    IF spl.kind # "none" /\ t22.kind # "none"
    THEN /\ allAccounts' = AllAccountsRpc(CaughtValue(spl), CaughtValue(t22))
         /\ scanResult' = ScanResultOf(allAccounts')
         /\ scanPc' = "done"
    ELSE UNCHANGED <<allAccounts, scanResult, scanPc>>

SplReturn(resp) ==
    /\ scanPc = "rpc"
    /\ splResponse = NoResponse
    /\ token2022Response.kind = "ok" =>
          Len(token2022Response.value) + Len(resp.value) <= MaxRecords
    /\ splResponse' = resp
    /\ rpcSettled' = Append(rpcSettled, "spl")
    /\ AfterRpc(resp, token2022Response)
    /\ UNCHANGED <<printVars, dasResponse, token2022Response>>

Token2022Return(resp) ==
    /\ scanPc = "rpc"
    /\ token2022Response = NoResponse
    /\ splResponse.kind = "ok" =>
          Len(splResponse.value) + Len(resp.value) <= MaxRecords
    /\ token2022Response' = resp
    /\ rpcSettled' = Append(rpcSettled, "token2022")
    /\ AfterRpc(splResponse, resp)
    /\ UNCHANGED <<printVars, dasResponse, splResponse>>

\* ------------------------------------------------------------ specification

\* Settings of FEE_RECIPIENT and FEE_PERCENTAGE: no recipient, a recipient
\* with the default fraction, a recipient with the fraction 0 ...
FeeOptions ==
    { [recipient |-> "", percentage |-> DefaultFeePercentage],
      [recipient |-> FeeWallet, percentage |-> DefaultFeePercentage],
      [recipient |-> FeeWallet, percentage |-> ZeroFeePercentage] }
\* ... and a fraction that floors every batch's fee to 0, a recipient that
\* is no public key, and the placeholder.
BuildFeeOptions ==
    FeeOptions \cup
    { [recipient |-> FeeWallet, percentage |-> TinyFeePercentage],
      [recipient |-> NotBase58, percentage |-> DefaultFeePercentage],
      [recipient |-> PlaceholderRecipient, percentage |-> DefaultFeePercentage] }

\* What getLatestBlockhash returns.
LatestBlockhash(k) == [blockhash |-> k, lastValidBlockHeight |-> k + 150]
LatestBlockhashes == { LatestBlockhash(1), LatestBlockhash(2) }

\* customDestination arguments: absent, a public key, not a public key.
CustomDestinations == {"", CustomWallet, NotBase58}

\* ------------------------------------------------- the scanner hook: values

\* The wallets a user connects: two addresses, or none.
ConnectableWallets == {WalletOwner, CustomWallet}

\* The initial ScanState (56-61), also what reset() sets (121-126).
initialScanState ==
    [isScanning |-> FALSE, result |-> NoScanResult, error |-> Null, hasScanned |-> FALSE]

MsgNotConnected == "Wallet not connected. Please connect your wallet first."
MsgScanRetry == "Failed to scan wallet. Please try again."

\* What scanWalletForCloseableAccounts(publicKey) resolves to: the accounts
\* of that wallet, here the wallet and the number of the scan.
ScanResultFor(scan) == [scan |-> scan.scan, wallet |-> scan.wallet]

\* The scanner hook and its panel right after mounting without a wallet.
ScannerIdle ==
    /\ connectedWallet = Undefined
    /\ lastWalletAddress = Undefined
    /\ scannerState = initialScanState
    /\ scansInFlight = {}
    /\ rescanTimers = <<>>
    /\ scansStarted = 0
    /\ latestScan = 0

\* --------------------------------------------- the landing page: scan cache

\* RATE_LIMIT_MS = 5 * 60 * 1000
RATE_LIMIT_MS == 5 * 60 * 1000

\* The clock advances by half a rate-limit window at a time.
HeroTickMs == RATE_LIMIT_MS \div 2

MsgEnterAddress == "Please enter a wallet address"
MsgInvalidAddress == "Invalid Solana address"
MsgScanFailed == "Failed to scan wallet"

\* What the user has typed when handleScan runs.
HeroInputs == {"", NotBase58, WalletOwner, CustomWallet}
HeroAddresses == {WalletOwner, CustomWallet}

\* scanCache.get(address) of an address never stored.
NoEntry == [isNull |-> TRUE]

\* The component state of a freshly mounted HeroSection (45-49).
initialHeroState == [isScanning |-> FALSE, scanResult |-> NoScanResult, error |-> Null]

\* The landing page before any scan: an empty cache, a mounted component.
HeroIdle ==
    /\ heroClock = 0
    /\ scanCache = [a \in HeroAddresses |-> NoEntry]
    /\ heroMount = 1
    /\ heroState = initialHeroState
    /\ heroScans = {}
    /\ heroScansStarted = 0
    /\ heroSucceeded = {}
    /\ heroRequests = {}
    /\ heroLast = [kind |-> "none"]

\* cached && (now - cached.timestamp) < RATE_LIMIT_MS
CacheAnswers(cached, now) == ~cached.isNull /\ (now - cached.timestamp) < RATE_LIMIT_MS

\* Math.ceil((RATE_LIMIT_MS - (now - cached.timestamp)) / 1000)
RemainingSeconds(cached, now) == (RATE_LIMIT_MS - (now - cached.timestamp) + 999) \div 1000

\* `Using cached result. Refresh available in ${minutes}m ${seconds}s`
MsgCached(cached, now) ==
    [text |-> "Using cached result. Refresh available in",
     minutes |-> RemainingSeconds(cached, now) \div 60,
     seconds |-> RemainingSeconds(cached, now) % 60]

\* A scan of the address succeeded and started less than a window before now.
OwedFromCache(address, now) ==
    \E s \in heroSucceeded : s.address = address /\ now - s.now < RATE_LIMIT_MS

\* handleScan (51-91) up to its await, with what the user typed.  The scan
\* button and the Enter key call it only while the rendered isScanning is false.
HandleScan(input) ==
    /\ ~heroState.isScanning
    /\ IF input = ""
       THEN /\ heroState' = [heroState EXCEPT !.error = MsgEnterAddress]
            /\ UNCHANGED <<heroScans, heroScansStarted, heroRequests>>
       ELSE IF input = NotBase58
       THEN /\ heroState' = [heroState EXCEPT !.error = MsgInvalidAddress]
            /\ UNCHANGED <<heroScans, heroScansStarted, heroRequests>>
       ELSE LET cached == scanCache[input]
                now == heroClock
                owed == OwedFromCache(input, now)
            IN  IF CacheAnswers(cached, now)
                THEN /\ heroState' = [heroState EXCEPT !.scanResult = cached.result,
                                                       !.error = MsgCached(cached, now)]
                     /\ heroRequests' = heroRequests \cup
                            {[address |-> input, scanned |-> FALSE, owed |-> owed]}
                     /\ UNCHANGED <<heroScans, heroScansStarted>>
                ELSE /\ heroScansStarted < MaxScans
                     /\ heroState' = [isScanning |-> TRUE, scanResult |-> NoScanResult,
                                      error |-> Null]
                     /\ heroScansStarted' = heroScansStarted + 1
                     /\ heroScans' = heroScans \cup
                            {[scan |-> heroScansStarted + 1, address |-> input, now |-> now,
                              mount |-> heroMount]}
                     /\ heroRequests' = heroRequests \cup
                            {[address |-> input, scanned |-> TRUE, owed |-> owed]}
    /\ UNCHANGED <<heroClock, scanCache, heroMount, heroSucceeded, heroLast>>

\* What the scan resolves to: the scanned address's accounts at that scan.
HeroResultFor(scan) == [scan |-> scan.scan, wallet |-> scan.address]

\* State updates of an unmounted instance are dropped.
HeroSetState(scan, st) == IF scan.mount = heroMount THEN st ELSE heroState

\* scanWalletForCloseableAccounts resolves (83-85, 89).
HeroResolve(scan) ==
    /\ scan \in heroScans
    /\ heroScans' = heroScans \ {scan}
    /\ heroState' = HeroSetState(scan, [heroState EXCEPT !.scanResult = HeroResultFor(scan),
                                                         !.isScanning = FALSE])
    /\ scanCache' = [scanCache EXCEPT ![scan.address] =
                        [isNull |-> FALSE, result |-> HeroResultFor(scan),
                         timestamp |-> scan.now]]
    /\ heroSucceeded' = heroSucceeded \cup {scan}
    /\ heroLast' = [kind |-> "resolved", address |-> scan.address, before |-> scanCache]
    /\ UNCHANGED <<heroClock, heroMount, heroScansStarted, heroRequests>>

\* err?.message || 'Failed to scan wallet'
HeroErrorMessage(error) == IF error.message = "" THEN MsgScanFailed ELSE error.message

\* scanWalletForCloseableAccounts rejects (86-89).
HeroReject(scan, error) ==
    /\ scan \in heroScans
    /\ heroScans' = heroScans \ {scan}
    /\ heroState' = HeroSetState(scan, [heroState EXCEPT !.error = HeroErrorMessage(error),
                                                         !.isScanning = FALSE])
    /\ heroLast' = [kind |-> "rejected", address |-> scan.address, before |-> scanCache]
    /\ UNCHANGED <<heroClock, scanCache, heroMount, heroScansStarted, heroSucceeded,
                   heroRequests>>

\* The landing page is left and shown again: a new HeroSection instance
\* starts from its initial state, the module-level cache stays.
HeroRemount ==
    /\ heroMount < MaxMounts
    /\ heroMount' = heroMount + 1
    /\ heroState' = initialHeroState
    /\ UNCHANGED <<heroClock, scanCache, heroScans, heroScansStarted, heroSucceeded,
                   heroRequests, heroLast>>

\* Time passes.
HeroTick ==
    /\ heroClock < MaxTicks * HeroTickMs
    /\ heroClock' = heroClock + HeroTickMs
    /\ UNCHANGED <<scanCache, heroMount, heroState, heroScans, heroScansStarted,
                   heroSucceeded, heroRequests, heroLast>>

HeroOthersUnchanged ==
    UNCHANGED <<attemptVars, scanVars, scannerVars, parked, payoutVars, loopVars>>

NextHero ==
    \/ \E input \in HeroInputs : HandleScan(input) /\ HeroOthersUnchanged
    \/ \E scan \in heroScans : HeroResolve(scan) /\ HeroOthersUnchanged
    \/ \E scan \in heroScans :
          \E error \in {[message |-> MsgNetwork], [message |-> ""]} :
             HeroReject(scan, error) /\ HeroOthersUnchanged
    \/ HeroRemount /\ HeroOthersUnchanged
    \/ HeroTick /\ HeroOthersUnchanged

\* ------------------------------------------- the backend: recent-payout cache

\* CACHE_TTL_MS = parseInt(process.env.CACHE_TTL_MS || '120000', 10), unset
CACHE_TTL_MS == 120000

\* The backend clock advances by a little over half a time-to-live at a time.
PayoutTickMs == CACHE_TTL_MS \div 2 + 1

\* let cache = { payouts: [], totalSolReclaimed: 0, lastUpdated: 0 }
initialCache == [payouts |-> <<>>, totalSolReclaimed |-> DoubleOf(0), lastUpdated |-> 0]

\* The backend right after the module is loaded.
PayoutIdle ==
    /\ payoutClock = 0
    /\ cache = initialCache
    /\ fetchPromise = Null
    /\ refreshPc = "idle"
    /\ refreshSignatures = <<>>
    /\ refreshes = 0
    /\ payoutWaiters = 0
    /\ payoutLast = [kind |-> "none"]

\* Date.now() - cache.lastUpdated > CACHE_TTL_MS
isCacheStale == payoutClock - cache.lastUpdated > CACHE_TTL_MS

\* Entries of getSignaturesForAddress, and what getTransaction returns for
\* one: nothing, a failed transaction, one that paid the fee wallet 'diff'
\* lamports, one without the fee wallet, one whose message cannot be read.
SigEntry(k) == [signature |-> k, blockTime |-> 1700000000 + k]
Paid(sender, feeWalletIndex, diff) ==
    [kind |-> "paid", sender |-> sender, feeWalletIndex |-> feeWalletIndex, diff |-> diff]
TxResults ==
    { [kind |-> "null"], [kind |-> "failed"], [kind |-> "malformed"],
      Paid(WalletOwner, 2, 203928), Paid(WalletOwner, 2, 306000), Paid(WalletOwner, 2, 0),
      Paid(CustomWallet, 0 - 1, 0) }
\* Two transactions in one answer.
TxResultPairs ==
    { << Paid(WalletOwner, 2, 51), Paid(CustomWallet, 1, 1708485) >>,
      << Paid(CustomWallet, 1, 1122000), [kind |-> "failed"] >> }

\* userReceived = feeReceived * 9, with feeReceived = balanceDiff / 1e9 (136-137)
UserReceived(balanceDiff) ==
    CHOOSE r \in { DoubleTimes(feeReceived, nine) :
                   feeReceived \in {Sol(balanceDiff)}, nine \in {DoubleOf(9)} } : TRUE

\* Math.max(1, Math.round(userReceived / 0.9 / rentPerAccount)) with
\* rentPerAccount = 0.00204, for a fee of balanceDiff lamports (138-139).
EstimatedAccounts(balanceDiff) ==
    CHOOSE r \in {
        IF rounded < 1 THEN 1 ELSE rounded :
        rounded \in { MathRound(perAccount) :
            perAccount \in { DoubleDivide(gross, rentPerAccount) :
                rentPerAccount \in {DoubleOfQuotient(204, 100000)},
                gross \in { DoubleDivide(userReceived, share) :
                    userReceived \in {UserReceived(balanceDiff)},
                    share \in {DoubleOfQuotient(9, 10)} } } } } : TRUE

\* The loop of lines 111-151.
RECURSIVE ParsePayouts(_, _, _)
ParsePayouts(txs, sigs, k) ==
    IF k > Len(txs)
    THEN <<>>
    ELSE LET tx == txs[k]
             rest == ParsePayouts(txs, sigs, k + 1)
         IN  IF tx.kind # "paid" \/ tx.feeWalletIndex = 0 - 1 \/ tx.diff <= 0
             THEN rest
             ELSE <<[wallet |-> tx.sender, accountsClosed |-> EstimatedAccounts(tx.diff),
                     reward |-> UserReceived(tx.diff), signature |-> sigs[k].signature,
                     timestamp |-> sigs[k].blockTime]>> \o rest

\* payouts.reduce((sum, p) => sum + p.reward, 0): the rewards added to the
\* sum from the first to the last.
RECURSIVE RewardsAddedTo(_, _, _)
RewardsAddedTo(sum, payouts, k) ==
    IF k > Len(payouts) THEN sum
    ELSE CHOOSE r \in { RewardsAddedTo(next, payouts, k + 1) :
                        next \in {DoublePlus(sum, payouts[k].reward)} } : TRUE
TotalReward(payouts) == RewardsAddedTo(DoubleOf(0), payouts, 1)

\* A refresh is started: doRefresh() is called and fetchPromise set (205-207).
StartRefresh ==
    /\ refreshes < MaxRefreshes
    /\ refreshes' = refreshes + 1
    /\ fetchPromise' = "pending"
    /\ refreshPc' = "signatures"

\* getCachedDataAsync (192-211) up to its return or its await.
GetCachedDataAsync ==
    /\ refreshPc # "exited"
    /\ IF ~isCacheStale /\ cache.lastUpdated > 0
       THEN UNCHANGED <<fetchPromise, refreshPc, refreshes, payoutWaiters>>
       ELSE IF fetchPromise # Null
       THEN /\ payoutWaiters' = payoutWaiters + 1
            /\ payoutWaiters < MaxRefreshes
            /\ UNCHANGED <<fetchPromise, refreshPc, refreshes>>
       ELSE /\ StartRefresh
            /\ payoutWaiters' = payoutWaiters + 1
    /\ UNCHANGED <<payoutClock, cache, refreshSignatures, payoutLast>>

\* refreshCacheInBackground (216-224).
RefreshCacheInBackground ==
    /\ refreshPc # "exited"
    /\ IF fetchPromise # Null \/ ~isCacheStale
       THEN UNCHANGED <<fetchPromise, refreshPc, refreshes>>
       ELSE StartRefresh
    /\ UNCHANGED <<payoutClock, cache, refreshSignatures, payoutWaiters, payoutLast>>

\* The finally handler of the refresh: fetchPromise = null.
RefreshSettled == fetchPromise' = Null

\* doRefresh stores what fetchRecentCleanups returned (173-179) and resolves.
RefreshStores(payouts, kind) ==
    /\ cache' = [payouts |-> payouts, totalSolReclaimed |-> TotalReward(payouts),
                 lastUpdated |-> payoutClock]
    /\ payoutLast' = [kind |-> kind, before |-> cache]
    /\ refreshPc' = "idle"
    /\ refreshSignatures' = <<>>
    /\ payoutWaiters' = 0
    /\ RefreshSettled

\* fetchRecentCleanups throws (156-159), doRefresh rethrows (182-185) and the
\* finally handler passes the rejection on.  A caller of getCachedDataAsync
\* that awaits fetchPromise receives it; the promise refreshCacheInBackground
\* made is awaited by nobody, and while no reader has joined it the
\* rejection is left unhandled, which ends the process.
RefreshThrows ==
    /\ payoutLast' = [kind |-> "threw", before |-> cache]
    /\ refreshPc' = IF payoutWaiters = 0 THEN "exited" ELSE "idle"
    /\ refreshSignatures' = <<>>
    /\ payoutWaiters' = 0
    /\ RefreshSettled
    /\ UNCHANGED cache

\* The getSignaturesForAddress request settles (59-84).
SignaturesReturn(resp) ==
    /\ refreshPc = "signatures"
    /\ IF resp.kind = "throws"
       THEN RefreshThrows
       ELSE IF resp.error
       THEN RefreshStores(<<>>, "rpc_error")
       ELSE IF Len(resp.result) = 0
       THEN RefreshStores(<<>>, "stored")
       ELSE /\ refreshSignatures' = resp.result
            /\ refreshPc' = "transactions"
            /\ UNCHANGED <<cache, fetchPromise, payoutWaiters, payoutLast>>
    /\ UNCHANGED <<payoutClock, refreshes>>

\* The batched getTransaction request settles (97-154).
TransactionsReturn(resp) ==
    /\ refreshPc = "transactions"
    /\ resp.isArray => Len(resp.results) = Len(refreshSignatures)
    /\ IF resp.kind = "throws"
       THEN RefreshThrows
       ELSE IF ~resp.isArray
       THEN RefreshStores(<<>>, "stored")
       ELSE RefreshStores(ParsePayouts(resp.results, refreshSignatures, 1), "stored")
    /\ UNCHANGED <<payoutClock, refreshes>>

\* Time passes.
PayoutTick ==
    /\ refreshPc # "exited"
    /\ payoutClock < MaxTicks * PayoutTickMs
    /\ payoutClock' = payoutClock + PayoutTickMs
    /\ UNCHANGED <<cache, fetchPromise, refreshPc, refreshSignatures, refreshes,
                   payoutWaiters, payoutLast>>

\* What the two RPC requests produce.
SignaturesResponses ==
    { [kind |-> "throws", error |-> FALSE, result |-> <<>>],
      [kind |-> "ok", error |-> TRUE, result |-> <<>>],
      [kind |-> "ok", error |-> FALSE, result |-> <<>>],
      [kind |-> "ok", error |-> FALSE, result |-> <<SigEntry(1)>>],
      [kind |-> "ok", error |-> FALSE, result |-> <<SigEntry(1), SigEntry(2)>>] }
TransactionsResponses ==
    { [kind |-> "throws", isArray |-> FALSE, results |-> <<>>],
      [kind |-> "ok", isArray |-> FALSE, results |-> <<>>] }
    \cup { [kind |-> "ok", isArray |-> TRUE, results |-> <<tx>>] : tx \in TxResults }
    \cup { [kind |-> "ok", isArray |-> TRUE, results |-> pair] : pair \in TxResultPairs }

PayoutOthersUnchanged ==
    UNCHANGED <<attemptVars, scanVars, scannerVars, parked, heroVars, loopVars>>

NextPayout ==
    \/ GetCachedDataAsync /\ PayoutOthersUnchanged
    \/ RefreshCacheInBackground /\ PayoutOthersUnchanged
    \/ \E resp \in SignaturesResponses : SignaturesReturn(resp) /\ PayoutOthersUnchanged
    \/ \E resp \in TransactionsResponses : TransactionsReturn(resp) /\ PayoutOthersUnchanged
    \/ PayoutTick /\ PayoutOthersUnchanged

\* --------------------------------- the builder's loop under any batch size

\* A JavaScript number: an integer, or NaN (what parseInt yields for text
\* without a leading number).
Num(n) == [nan |-> FALSE, value |-> n]
NaN == [nan |-> TRUE, value |-> 0]

Digits == <<"0", "1", "2", "3", "4", "5", "6", "7", "8", "9">>
IsDigit(c) == \E d \in 1..10 : Digits[d] = c
DigitValue(c) == (CHOOSE d \in 1..10 : Digits[d] = c) - 1

\* The value of the leading digits of chars, from position k on.
RECURSIVE LeadingDigits(_, _, _)
LeadingDigits(chars, k, acc) ==
    IF k > Len(chars) \/ ~IsDigit(chars[k])
    THEN acc
    ELSE LeadingDigits(chars, k + 1, acc * 10 + DigitValue(chars[k]))

\* parseInt(text, 10) of a text without white space, given as its characters.
ParseInt(chars) ==
    LET signed == chars # <<>> /\ Head(chars) \in {"-", "+"}
        first == IF signed THEN 2 ELSE 1
    IN  IF first > Len(chars) \/ ~IsDigit(chars[first])
        THEN NaN
        ELSE IF signed /\ Head(chars) = "-"
        THEN Num(0 - LeadingDigits(chars, first, 0))
        ELSE Num(LeadingDigits(chars, first, 0))

\* parseInt(process.env.NEXT_PUBLIC_MAX_ACCOUNTS_PER_TX || '10', 10)
MaxAccountsPerTx(env) == IF env = <<>> THEN ParseInt(<<"1", "0">>) ELSE ParseInt(env)

\* Settings of NEXT_PUBLIC_MAX_ACCOUNTS_PER_TX: unset, "1", "2", "25", "0",
\* "-1", "abc", "2.5".
BatchSizeSettings ==
    { <<>>, <<"1">>, <<"2">>, <<"2", "5">>, <<"0">>, <<"-", "1">>, <<"a", "b", "c">>,
      <<"2", ".", "5">> }

\* a < b and a + b on numbers, one of which may be NaN.
NumLess(a, b) == ~a.nan /\ ~b.nan /\ a.value < b.value
NumPlus(a, b) == IF a.nan \/ b.nan THEN NaN ELSE Num(a.value + b.value)

\* The position Array.prototype.slice makes of an argument, for length len.
SliceIndex(x, len) ==
    IF x.nan THEN 0
    ELSE IF x.value < 0 THEN (IF len + x.value < 0 THEN 0 ELSE len + x.value)
    ELSE IF x.value > len THEN len ELSE x.value

\* accounts.slice(start, end) of the accounts 1..len, as their positions.
SliceOf(len, start, end) ==
    LET from == SliceIndex(start, len)
        to == SliceIndex(end, len)
    IN  [k \in 1..(IF to > from THEN to - from ELSE 0) |-> from + k]

\* The builder before it is called.
LoopIdle ==
    /\ loopPc = "idle"
    /\ loopMax = Num(DefaultMaxAccountsPerTx)
    /\ loopAccounts = 0
    /\ loopI = Num(0)
    /\ loopTransactions = <<>>

\* createCloseAccountTransactions is called with n accounts under a setting
\* of the batch size, and getLatestBlockhash has returned (321-334).
LoopCall(env, n) ==
    /\ loopPc = "idle"
    /\ loopPc' = "loop"
    /\ loopMax' = MaxAccountsPerTx(env)
    /\ loopAccounts' = n
    /\ loopI' = Num(0)
    /\ loopTransactions' = <<>>

\* One iteration of the loop (337-384): the batch is sliced, its transaction
\* pushed, and i advanced.  Iterations are followed while there are no more
\* of them than accounts plus one; a loop that gets further is "unbounded".
LoopIteration ==
    /\ loopPc = "loop"
    /\ NumLess(loopI, Num(loopAccounts))
    /\ IF Len(loopTransactions) > loopAccounts
       THEN /\ loopPc' = "unbounded"
            /\ UNCHANGED <<loopI, loopTransactions>>
       ELSE /\ loopTransactions' =
                  Append(loopTransactions,
                         [closes |-> SliceOf(loopAccounts, loopI, NumPlus(loopI, loopMax))])
            /\ loopI' = NumPlus(loopI, loopMax)
            /\ UNCHANGED loopPc
    /\ UNCHANGED <<loopMax, loopAccounts>>

\* The loop condition fails and the transactions are returned (386).
LoopReturn ==
    /\ loopPc = "loop"
    /\ ~NumLess(loopI, Num(loopAccounts))
    /\ loopPc' = "returned"
    /\ UNCHANGED <<loopMax, loopAccounts, loopI, loopTransactions>>

LoopOthersUnchanged ==
    UNCHANGED <<attemptVars, scanVars, scannerVars, parked, heroVars, payoutVars>>

NextLoop ==
    \/ \E env \in BatchSizeSettings : \E n \in 0..MaxLoopAccounts :
          LoopCall(env, n) /\ LoopOthersUnchanged
    \/ LoopIteration /\ LoopOthersUnchanged
    \/ LoopReturn /\ LoopOthersUnchanged

\* The locals of a print attempt that has not been started.
NotStarted ==
    [pc |-> "idle", publicKey |-> FALSE, signAllTransactions |-> FALSE,
     signTransaction |-> FALSE, accounts |-> <<>>, destinationPubkey |-> Undefined,
     transactions |-> <<>>, signedTransactions |-> <<>>, i |-> 0, signatures |-> <<>>,
     confirmedSignatures |-> <<>>, accountsClosedSoFar |-> 0, failedTransactions |-> 0,
     lastError |-> Null, returned |-> NullResult, calls |-> <<>>,
     statsAtStart |-> initialStats, seenStatus |-> <<>>, lastFailure |-> NoFailure]

\* A freshly mounted hook under one of the given configurations.
InitWith(batchSizes, feeOptions) ==
    /\ cfgMaxPerTx \in batchSizes
    /\ \E option \in feeOptions :
          /\ cfgFeeRecipient = option.recipient
          /\ cfgFeePercentage = option.percentage
    /\ progress = initialProgress
    /\ lastResult = NullResult
    /\ sessionStats = initialStats
    /\ pc = "idle"
    /\ publicKey = FALSE
    /\ signAllTransactions = FALSE
    /\ signTransaction = FALSE
    /\ accounts = <<>>
    /\ destinationPubkey = Undefined
    /\ transactions = <<>>
    /\ signedTransactions = <<>>
    /\ i = 0
    /\ signatures = <<>>
    /\ confirmedSignatures = <<>>
    /\ accountsClosedSoFar = 0
    /\ failedTransactions = 0
    /\ lastError = Null
    /\ returned = NullResult
    /\ calls = <<>>
    /\ attempts = 0
    /\ statsAtStart = initialStats
    /\ seenStatus = <<>>
    /\ lastFailure = NoFailure
    /\ ScanIdle
    /\ ScannerIdle
    /\ parked = NotStarted
    /\ HeroIdle
    /\ PayoutIdle
    /\ LoopIdle

Init == InitWith(BatchSizes, FeeOptions)

Next ==
    \/ \E pk \in BOOLEAN, sa \in BOOLEAN, so \in BOOLEAN, accts \in Selections :
          attempts = 0 /\ Start(pk, sa, so, accts, "")
    \/ PrepareDelay
    \/ \E error \in ThrownErrors : BlockhashThrow(error)
    \/ BlockhashReturn(LatestBlockhash(1))
    \/ SignAllReturn
    \/ SignAllReject
    \/ SignOneReturn
    \/ SignOneReject
    \/ SendReturn
    \/ \E error \in ThrownErrors : SendThrow(error)
    \/ \E err \in BOOLEAN : ConfirmReturn(err)
    \/ \E error \in ThrownErrors : ConfirmThrow(error)
    \/ Reset

Spec == Init /\ [][Next]_vars

NextScan ==
    \/ ScanStart
    \/ scanPc = "das" /\ \E resp \in DasResponses : DasReturn(resp)
    \/ scanPc = "rpc" /\ \E resp \in RpcResponses : SplReturn(resp)
    \/ scanPc = "rpc" /\ \E resp \in RpcResponses : Token2022Return(resp)

\* One scan; the hook is left in its initial state with the default options.
InitScan ==
    InitWith({DefaultMaxAccountsPerTx},
             {[recipient |-> FeeWallet, percentage |-> DefaultFeePercentage]})

SpecScan == InitScan /\ [][NextScan]_vars

\* One print attempt on a large selection of accounts that all hold the
\* standard rent, with the default batch size and fee.
LargeSelections == { Selection(n, n) : n \in (MaxLargeAccounts - 5)..MaxLargeAccounts }

NextLargePrint ==
    \/ \E sa \in BOOLEAN, accts \in LargeSelections :
          attempts = 0 /\ Start(TRUE, sa, TRUE, accts, "")
    \/ PrepareDelay
    \/ \E error \in ThrownErrors : BlockhashThrow(error)
    \/ BlockhashReturn(LatestBlockhash(1))
    \/ SignAllReturn
    \/ SignAllReject
    \/ SignOneReturn
    \/ SignOneReject
    \/ SendReturn
    \/ \E error \in ThrownErrors : SendThrow(error)
    \/ \E err \in BOOLEAN : ConfirmReturn(err)
    \/ \E error \in ThrownErrors : ConfirmThrow(error)
    \/ Reset

InitLargePrint ==
    InitWith({DefaultMaxAccountsPerTx},
             {[recipient |-> FeeWallet, percentage |-> DefaultFeePercentage]})

SpecLargePrint == InitLargePrint /\ [][NextLargePrint]_vars

\* One scan of a wallet whose indexing-API response is large.
NextLargeScan ==
    \/ ScanStart
    \/ scanPc = "das" /\ \E n \in LargeRecordCounts, rents \in RentPatterns, mix \in MixPatterns :
          DasReturn(LargeDasResponse(n, rents, mix))

SpecLargeScan == InitScan /\ [][NextLargeScan]_vars

\* print up to the signing request: every fee option, every kind of custom
\* destination, and either answer of the blockhash request.
InitBuild == InitWith(BatchSizes, BuildFeeOptions)

NextBuild ==
    \/ \E pk \in BOOLEAN, sa \in BOOLEAN, so \in BOOLEAN, accts \in Selections,
          customDestination \in CustomDestinations :
          attempts = 0 /\ Start(pk, sa, so, accts, customDestination)
    \/ PrepareDelay
    \/ \E error \in ThrownErrors : BlockhashThrow(error)
    \/ \E latest \in LatestBlockhashes : BlockhashReturn(latest)

SpecBuild == InitBuild /\ [][NextBuild]_vars

\* Several attempts in a row on one hook instance, each with a connected
\* wallet that can sign, on a selection of 0, 1 or 11 accounts.
SessionSelections == { Selection(0, 0), Selection(1, 1), Selection(11, 1) }

InitSession ==
    InitWith({DefaultMaxAccountsPerTx},
             {[recipient |-> FeeWallet, percentage |-> DefaultFeePercentage]})

NextSession ==
    \/ \E sa \in BOOLEAN, accts \in SessionSelections :
          attempts < MaxSessionAttempts /\ Start(TRUE, sa, TRUE, accts, "")
    \/ PrepareDelay
    \/ \E error \in ThrownErrors : BlockhashThrow(error)
    \/ BlockhashReturn(LatestBlockhash(1))
    \/ SignAllReturn
    \/ SignAllReject
    \/ SignOneReturn
    \/ SignOneReject
    \/ SendReturn
    \/ \E error \in ThrownErrors : SendThrow(error)
    \/ \E err \in BOOLEAN : ConfirmReturn(err)
    \/ \E error \in ThrownErrors : ConfirmThrow(error)
    \/ Reset

SpecSession == InitSession /\ [][NextSession]_vars

\* The hook's isPrinting (509-512): the progress status is none of idle,
\* success, error and partial_success.
isPrinting == progress.status \notin {"idle", "success", "error", "partial_success"}

\* ------------------------------------------------------ overlapping attempts

\* The attempt that takes the next step changes: the running attempt is
\* suspended at its await and the other one resumes (or, not started yet,
\* can be started).  The hook's state is shared, the locals are not.
SwitchAttempt ==
    /\ pc # "idle" \/ parked.pc # "idle"
    /\ parked' = [pc |-> pc, publicKey |-> publicKey,
                  signAllTransactions |-> signAllTransactions,
                  signTransaction |-> signTransaction, accounts |-> accounts,
                  destinationPubkey |-> destinationPubkey, transactions |-> transactions,
                  signedTransactions |-> signedTransactions, i |-> i,
                  signatures |-> signatures, confirmedSignatures |-> confirmedSignatures,
                  accountsClosedSoFar |-> accountsClosedSoFar,
                  failedTransactions |-> failedTransactions, lastError |-> lastError,
                  returned |-> returned, calls |-> calls, statsAtStart |-> statsAtStart,
                  seenStatus |-> seenStatus, lastFailure |-> lastFailure]
    /\ pc' = parked.pc
    /\ publicKey' = parked.publicKey
    /\ signAllTransactions' = parked.signAllTransactions
    /\ signTransaction' = parked.signTransaction
    /\ accounts' = parked.accounts
    /\ destinationPubkey' = parked.destinationPubkey
    /\ transactions' = parked.transactions
    /\ signedTransactions' = parked.signedTransactions
    /\ i' = parked.i
    /\ signatures' = parked.signatures
    /\ confirmedSignatures' = parked.confirmedSignatures
    /\ accountsClosedSoFar' = parked.accountsClosedSoFar
    /\ failedTransactions' = parked.failedTransactions
    /\ lastError' = parked.lastError
    /\ returned' = parked.returned
    /\ calls' = parked.calls
    /\ statsAtStart' = parked.statsAtStart
    /\ seenStatus' = parked.seenStatus
    /\ lastFailure' = parked.lastFailure
    /\ UNCHANGED <<scannerVars, sideVars, scanVars, cfgVars, hookVars, attempts>>

\* Two print attempts on one hook instance, the second started while the
\* first is suspended or after it returned.
OverlapSelections == { Selection(1, 1), Selection(11, 1) }

NextOverlap ==
    \/ \E sa \in BOOLEAN, accts \in OverlapSelections :
          attempts < 2 /\ returned = NullResult /\ Start(TRUE, sa, TRUE, accts, "")
    \/ SwitchAttempt
    \/ PrepareDelay
    \/ BlockhashThrow([message |-> MsgNetwork, logs |-> <<>>])
    \/ BlockhashReturn(LatestBlockhash(1))
    \/ SignAllReturn
    \/ SignAllReject
    \/ SignOneReturn
    \/ SignOneReject
    \/ SendReturn
    \/ SendThrow([message |-> MsgNetwork, logs |-> <<>>])
    \/ \E err \in BOOLEAN : ConfirmReturn(err)
    \/ ConfirmThrow([message |-> MsgNetwork, logs |-> <<>>])

SpecOverlap == InitSession /\ [][NextOverlap]_vars

\* ------------------------------------------------ the scanner hook: actions

\* scan() of a render whose wallet is w (71-91), on the state st left by the
\* updates queued before it: the guard, 'isScanning', and the scan started.
CallScan(st, latest, w) ==
    IF w = Undefined
    THEN /\ scannerState' = [st EXCEPT !.error = MsgNotConnected, !.hasScanned = TRUE]
         /\ latestScan' = latest
         /\ UNCHANGED <<scansInFlight, scansStarted>>
    ELSE /\ scannerState' = [st EXCEPT !.isScanning = TRUE, !.error = Null]
         /\ scansStarted' = scansStarted + 1
         /\ latestScan' = scansStarted + 1
         /\ scansInFlight' = scansInFlight
                \cup {[scan |-> scansStarted + 1, wallet |-> w, mounted |-> TRUE]}

\* The page renders the panel, and with it the scanner hook, only while a
\* wallet is connected (pages/index.tsx 56-58).
PanelMounted == connectedWallet # Undefined

\* The user starts a scan.
ScannerScan ==
    /\ PanelMounted
    /\ scansStarted + Len(rescanTimers) < MaxScans
    /\ CallScan(scannerState, latestScan, connectedWallet)
    /\ UNCHANGED <<connectedWallet, lastWalletAddress, rescanTimers, attemptVars, scanVars, parked, sideVars>>

\* scanWalletForCloseableAccounts resolves (93-98).  The setState of a scan
\* whose panel was unmounted changes nothing.
ScannerResolve(scan) ==
    /\ scan \in scansInFlight
    /\ scansInFlight' = scansInFlight \ {scan}
    /\ scannerState' = IF scan.mounted
                       THEN [isScanning |-> FALSE, result |-> ScanResultFor(scan),
                             error |-> Null, hasScanned |-> TRUE]
                       ELSE scannerState
    /\ UNCHANGED <<connectedWallet, lastWalletAddress, rescanTimers, scansStarted, latestScan,
                   attemptVars, scanVars, parked, sideVars>>

\* error instanceof Error ? error.message : 'Failed to scan wallet. ...' (101-103)
ScanErrorMessage(error) == IF error.instanceOfError THEN error.message ELSE MsgScanRetry

\* scanWalletForCloseableAccounts rejects (99-113).
ScannerReject(scan, error) ==
    /\ scan \in scansInFlight
    /\ scansInFlight' = scansInFlight \ {scan}
    /\ scannerState' = IF scan.mounted
                       THEN [scannerState EXCEPT !.isScanning = FALSE,
                                                 !.error = ScanErrorMessage(error),
                                                 !.hasScanned = TRUE]
                       ELSE scannerState
    /\ UNCHANGED <<connectedWallet, lastWalletAddress, rescanTimers, scansStarted, latestScan,
                   attemptVars, scanVars, parked, sideVars>>

\* reset() of the scanner hook (120-127).
ScannerReset ==
    /\ PanelMounted
    /\ scannerState' = initialScanState
    /\ latestScan' = 0
    /\ UNCHANGED <<connectedWallet, lastWalletAddress, scansInFlight, rescanTimers,
                   scansStarted, attemptVars, scanVars, parked, sideVars>>

\* The scans and timers of a panel that is unmounted: they still settle and
\* fire, on a component that is gone.
Unmounted(pending) == [pending EXCEPT !.mounted = FALSE]

\* The wallet disconnects: the page unmounts the panel, and the state of
\* its hook and its ref go with it; the next panel starts from the initial
\* values.
WalletDisconnect ==
    /\ connectedWallet' = Undefined
    /\ lastWalletAddress' = Undefined
    /\ scannerState' = initialScanState
    /\ latestScan' = 0
    /\ scansInFlight' = { Unmounted(scan) : scan \in scansInFlight }
    /\ rescanTimers' = [k \in 1..Len(rescanTimers) |-> Unmounted(rescanTimers[k])]
    /\ UNCHANGED scansStarted

\* The wallet changes to w and the panel's effects run, in a panel just
\* mounted when no wallet was connected before: on a change between two
\* wallets the scanner is reset and a rescan is scheduled (ScannerPanel
\* 61-73); when the render showed neither a finished nor a running scan, the
\* new wallet is scanned at once (95-99).
WalletConnect(w) ==
    /\ connectedWallet' = w
    /\ lastWalletAddress' = w
    /\ LET changed == lastWalletAddress # Undefined /\ w # lastWalletAddress
           st == IF changed THEN initialScanState ELSE scannerState
           latest == IF changed THEN 0 ELSE latestScan
       IN  /\ rescanTimers' =
                  IF changed THEN Append(rescanTimers, [wallet |-> w, mounted |-> TRUE])
                  ELSE rescanTimers
           /\ IF ~scannerState.hasScanned /\ ~scannerState.isScanning
              THEN CallScan(st, latest, w)
              ELSE /\ scannerState' = st
                   /\ latestScan' = latest
                   /\ UNCHANGED <<scansInFlight, scansStarted>>

\* useWallet() reports the wallet w, or none (Undefined).
WalletChange(w) ==
    /\ w # connectedWallet
    /\ IF w = Undefined
       THEN WalletDisconnect
       ELSE /\ scansStarted + Len(rescanTimers) + 2 <= MaxScans
            /\ WalletConnect(w)
    /\ UNCHANGED <<attemptVars, scanVars, parked, sideVars>>

\* A rescan timer fires: scan() of the render that scheduled it.  No cleanup
\* clears the timer of an unmounted panel: its scan() still issues the
\* request, and its state updates change nothing.
RescanTimerFires ==
    /\ rescanTimers # <<>>
    /\ rescanTimers' = Tail(rescanTimers)
    /\ IF Head(rescanTimers).mounted
       THEN CallScan(scannerState, latestScan, Head(rescanTimers).wallet)
       ELSE /\ scansStarted' = scansStarted + 1
            /\ scansInFlight' = scansInFlight
                   \cup {[scan |-> scansStarted + 1, wallet |-> Head(rescanTimers).wallet,
                          mounted |-> FALSE]}
            /\ UNCHANGED <<scannerState, latestScan>>
    /\ UNCHANGED <<connectedWallet, lastWalletAddress, attemptVars, scanVars, parked, sideVars>>

\* What scanWalletForCloseableAccounts is rejected with: an Error, or a value
\* that is no Error (an object with a message, a string, null).
ThrownError(message) == [instanceOfError |-> TRUE, message |-> message]
ThrownValue(message) == [instanceOfError |-> FALSE, message |-> message]
ScanRejections == {ThrownError(MsgNetwork), ThrownValue(MsgNetwork), ThrownValue(Null)}

NextScanner ==
    \/ ScannerScan
    \/ \E scan \in scansInFlight : ScannerResolve(scan)
    \/ \E scan \in scansInFlight : \E error \in ScanRejections : ScannerReject(scan, error)
    \/ ScannerReset
    \/ \E w \in ConnectableWallets \cup {Undefined} : WalletChange(w)
    \/ RescanTimerFires

\* The scanner hook and its panel; the print hook stays in its initial state.
SpecScanner == InitScan /\ [][NextScanner]_vars

\* The landing page and its scan cache; everything else stays initial.
SpecHero == InitScan /\ [][NextHero]_vars

\* The backend cache; everything else stays initial.
SpecPayout == InitScan /\ [][NextPayout]_vars

\* One call of the builder under any setting of the batch size.  The loop is
\* synchronous code: once entered it keeps taking steps.
SpecLoop == InitScan /\ [][NextLoop]_vars /\ WF_vars(NextLoop)

\* A step of a running attempt: the preparation timer fires, or the external
\* call the attempt is waiting on (getLatestBlockhash, the wallet's signing
\* prompt, sendRawTransaction, confirmTransaction) returns or throws.
AttemptStep ==
    \/ PrepareDelay
    \/ \E error \in ThrownErrors : BlockhashThrow(error)
    \/ BlockhashReturn(LatestBlockhash(1))
    \/ SignAllReturn
    \/ SignAllReject
    \/ SignOneReturn
    \/ SignOneReject
    \/ SendReturn
    \/ \E error \in ThrownErrors : SendThrow(error)
    \/ \E err \in BOOLEAN : ConfirmReturn(err)
    \/ \E error \in ThrownErrors : ConfirmThrow(error)

\* The session in which every timer fires and every external call eventually
\* returns or throws; the user's clicks (print, reset) stay unforced.
SpecSessionFair == InitSession /\ [][NextSession]_vars /\ WF_vars(AttemptStep)

\* Print attempts under more fee configurations: also a recipient that is no
\* public key, and the placeholder.
InitFee ==
    InitWith({DefaultMaxAccountsPerTx},
             FeeOptions \cup
             { [recipient |-> NotBase58, percentage |-> DefaultFeePercentage],
               [recipient |-> PlaceholderRecipient, percentage |-> DefaultFeePercentage] })

SpecFee == InitFee /\ [][NextSession]_vars

\* ================================================================= claims

\* ---- helpers over the scan's inputs

\* The scan classified records of the indexing API (not of the fallback).
OnDasPath == dasResponse.kind = "ok" /\ Len(dasResponse.token_accounts) > 0

\* What the data source said about record k: frozen flag and token balance.
RawCount ==
    IF OnDasPath THEN Len(dasResponse.token_accounts)
    ELSE Len(CaughtValue(splResponse)) + Len(CaughtValue(token2022Response))
RawRecord(k) ==
    IF OnDasPath THEN dasResponse.token_accounts[k]
    ELSE (CaughtValue(splResponse) \o CaughtValue(token2022Response))[k]
RawFrozen(k) == IF OnDasPath THEN RawRecord(k).frozen ELSE RawRecord(k).state = "frozen"
RawHoldsTokens(k) == RawRecord(k).amount.t \in {"number", "string"} /\ RawRecord(k).amount.v # 0

\* Addresses the scan returned as closeable, and addresses closed by the
\* transactions the builder makes of them.
CloseableAddresses ==
    { scanResult.closeableAccounts[k].address : k \in 1..Len(scanResult.closeableAccounts) }
ScanBuiltTransactions ==
    CreateCloseAccountTransactions(scanResult.closeableAccounts, WalletOwner,
                                   FeeRecipientPubkey, FeePercentageArg, Undefined,
                                   cfgMaxPerTx, LatestBlockhash(1))
ScanClosedAddresses ==
    UNION { ClosedBy(ScanBuiltTransactions[k]) : k \in 1..Len(ScanBuiltTransactions) }

\* ---- helpers over the attempt's call history

CountCalls(names, txNo) ==
    Cardinality({k \in 1..Len(calls) : calls[k][1] \in names /\ calls[k][2] = txNo})
CountAll(names) == Cardinality({k \in 1..Len(calls) : calls[k][1] \in names})

FailureEvents == {"sendRawTransactionThrew", "confirmTransactionThrew",
                  "confirmTransactionReturnedErr"}
SettleEvents == FailureEvents \cup {"confirmTransactionReturnedOk"}
ConfirmedCount == CountAll({"confirmTransactionReturnedOk"})
FailedCount == CountAll(FailureEvents)
ConfirmedTxs == { calls[k][2] : k \in {j \in 1..Len(calls) : calls[j][1] = "confirmTransactionReturnedOk"} }

\* The attempt is over: print's promise has resolved.
AttemptOver == attempts >= 1 /\ pc = "idle"
\* ... after the submission loop ran through every signed transaction.
LoopRanToEnd == AttemptOver /\ Len(signedTransactions) > 0 /\ i = Len(signedTransactions)
\* ... because the first transaction's send or confirmation wait threw.
AbortedOnFirst ==
    CountCalls({"sendRawTransactionThrew", "confirmTransactionThrew"}, 1) > 0
\* ... because the signer rejected.
Cancelled ==
    AttemptOver /\ Len(calls) > 0
    /\ calls[Len(calls)][1] \in {"signAllTransactionsThrew", "signTransactionThrew"}

FinalStatus == seenStatus[Len(seenStatus)]

\* The message the code records for a failure.
MessageOf(failure) ==
    IF failure.how = "onchain" THEN OnChainMessage(failure.tx)
    ELSE NormalizeErrorMessage(failure.error)

\* ---- C1
\* C1 (as claimed): once a scan is done, every record that is not frozen and
\* holds a non-zero token balance was counted as skipped, is not among the
\* closeable accounts, and is closed by no transaction built from them.
C1_NonEmptyNeverCloseable ==
    scanPc = "done" =>
        \A k \in 1..RawCount :
            (~RawFrozen(k) /\ RawHoldsTokens(k)) =>
                /\ Classify(allAccounts[k]) = "skipped"
                /\ k \notin CloseableAddresses
                /\ k \notin ScanClosedAddresses

\* ---- C2
\* C2: once a scan is done, no record whose frozen flag is set is among the
\* closeable accounts or closed by a transaction built from them, whatever
\* its balance and whichever source delivered it.
C2_FrozenNeverCloseable ==
    scanPc = "done" =>
        \A k \in 1..RawCount :
            RawFrozen(k) =>
                /\ k \notin CloseableAddresses
                /\ k \notin ScanClosedAddresses
                /\ scanResult.frozenAccounts + scanResult.skippedAccounts >= 1

\* A finished scan with a frozen record of zero balance and a valid mint
\* next to a record that was returned as closeable.
C2_Witness ==
    /\ scanPc = "done"
    /\ \E k \in 1..RawCount :
          /\ RawFrozen(k)
          /\ ~RawHoldsTokens(k)
          /\ IsValidPublicKey(RawRecord(k).mint)
    /\ scanResult.frozenAccounts >= 1
    /\ Len(ScanBuiltTransactions) >= 1

\* ---- C3
\* C3: when the submission loop has run to its end, zero confirmed
\* transactions give status error, success = FALSE and the last failure's
\* message; all confirmed and none failed give status success and
\* success = TRUE; some confirmed and some failed give partial_success,
\* success = FALSE and the failure count in the message.  No finished attempt
\* reports success = TRUE when a transaction failed.
C3_FinalClassification ==
    /\ LoopRanToEnd =>
        /\ ConfirmedCount = 0 =>
              /\ FinalStatus = "error"
              /\ returned.success = FALSE
              /\ returned.error = MessageOf(lastFailure)
        /\ (ConfirmedCount > 0 /\ FailedCount = 0) =>
              /\ FinalStatus = "success"
              /\ returned.success = TRUE
              /\ ConfirmedCount = Len(signedTransactions)
        /\ (ConfirmedCount > 0 /\ FailedCount > 0) =>
              /\ FinalStatus = "partial_success"
              /\ returned.success = FALSE
              /\ returned.error = FailedCountMessage(FailedCount)
    /\ (AttemptOver /\ returned # NullResult) =>
          (returned.success => FailedCount = 0)

\* The loop ran to its end with two failures around one confirmation.
C3_Witness ==
    /\ LoopRanToEnd
    /\ ConfirmedCount = 1
    /\ FailedCount = 2
    /\ FinalStatus = "partial_success"

\* ---- C4
\* C4 (as claimed): the accountsClosed of a print result is
\* min(B * k, n) for the configured batch size B, k confirmed transactions
\* and n selected accounts.
C4_ClosedIsBatchTimesConfirmed ==
    LoopRanToEnd =>
        returned.accountsClosed = Min(cfgMaxPerTx * ConfirmedCount, Len(accounts))

\* ---- C5
\* C5 (as claimed): the accountsClosed of a print result is the number of
\* accounts contained in the transactions that confirmed without error.
C5_ClosedIsAccountsOfConfirmed ==
    LoopRanToEnd =>
        returned.accountsClosed =
            Cardinality(UNION { ClosedBy(signedTransactions[k]) : k \in ConfirmedTxs })

\* ---- C6
FirstFailedUnconfirmed == CountCalls(FailureEvents, 1) > 0

\* C6 (as claimed): once the first transaction has failed, by a throw or by
\* an on-chain error, the attempt is over with status error and no later
\* transaction was sent.
C6_FirstFailureAborts ==
    FirstFailedUnconfirmed =>
        /\ AttemptOver
        /\ FinalStatus = "error"
        /\ \A k \in 1..Len(calls) : calls[k][1] = "sendRawTransaction" => calls[k][2] = 1

\* ---- C7
\* C7: a failure is counted and its message recorded, and unless the first
\* transaction's send or confirmation wait threw, every signed transaction
\* is sent exactly once by the time the attempt is over (and never twice).
C7_FailureDoesNotStopLaterOnes ==
    /\ failedTransactions = FailedCount
    /\ FailedCount > 0 => lastError = MessageOf(lastFailure)
    /\ \A k \in 1..Len(signedTransactions) : CountCalls({"sendRawTransaction"}, k) <= 1
    /\ (AttemptOver /\ Len(signedTransactions) = Len(transactions)
            /\ ~Cancelled /\ ~AbortedOnFirst) =>
          \A k \in 1..Len(signedTransactions) : CountCalls({"sendRawTransaction"}, k) = 1

\* The attempt is over; the second of at least three transactions threw on
\* send and the third was sent all the same.
C7_Witness ==
    /\ AttemptOver
    /\ Len(signedTransactions) >= 3
    /\ CountCalls({"sendRawTransactionThrew"}, 2) = 1
    /\ CountCalls({"sendRawTransaction"}, 3) = 1
    /\ ConfirmedCount = 0

\* ---- C8
\* Transactions sent and not yet settled (send threw, or confirmation wait
\* returned or threw).
InFlight ==
    { t \in 1..Len(signedTransactions) :
        CountCalls({"sendRawTransaction"}, t) > CountCalls(SettleEvents, t) }
SendPositions == { k \in 1..Len(calls) : calls[k][1] = "sendRawTransaction" }

\* C8: at most one transaction is in flight; the sends are for transactions
\* 1, 2, 3, ... in this order; and when a transaction is sent every earlier
\* one has settled.
C8_StrictlySequential ==
    /\ Cardinality(InFlight) <= 1
    /\ \A k \in SendPositions :
          LET t == calls[k][2]
          IN  /\ t = Cardinality({j \in SendPositions : j <= k})
              /\ \A u \in 1..(t - 1) :
                    \E j \in 1..(k - 1) : calls[j][1] \in SettleEvents /\ calls[j][2] = u

\* The third transaction is in flight after the first confirmed and the
\* second failed.
C8_Witness ==
    /\ pc = "confirm"
    /\ InFlight = {3}
    /\ CountCalls({"confirmTransactionReturnedOk"}, 1) = 1
    /\ CountCalls(FailureEvents, 2) = 1

\* ---- C9
\* C9: after the signer rejected, print has returned the 'cancelled' result
\* with nothing closed and no signatures, the progress status went back to
\* idle and never was error, session stats are as before the attempt, and
\* nothing was sent.
C9_CancelIsSilent ==
    Cancelled =>
        /\ returned = [success |-> FALSE, accountsClosed |-> 0,
                       lamportsReclaimed |-> 0, solReclaimed |-> Sol(0),
                       solKept |-> Sol(0), feePaid |-> Sol(0),
                       signatures |-> <<>>, error |-> "cancelled"]
        /\ FinalStatus = "idle"
        /\ progress.status = "idle"
        /\ \A k \in 1..Len(seenStatus) : seenStatus[k] # "error"
        /\ sessionStats = statsAtStart
        /\ CountAll({"sendRawTransaction", "confirmTransaction"}) = 0

\* One-at-a-time signing rejected at the second of several transactions.
C9_Witness ==
    /\ Cancelled
    /\ ~signAllTransactions
    /\ Len(signedTransactions) = 1
    /\ Len(transactions) >= 2

\* ---- C10
PreconditionViolated ==
    attempts >= 1 /\ (~publicKey \/ (~signAllTransactions /\ ~signTransaction)
                        \/ Len(accounts) = 0)
ExpectedPreconditionError ==
    IF ~publicKey THEN "Wallet not connected"
    ELSE IF ~signAllTransactions /\ ~signTransaction
    THEN "Wallet does not support transaction signing"
    ELSE "No accounts to close"

\* C10: an attempt with a violated precondition is over at once: lastResult
\* holds the error of the first violated precondition (wallet, then signer,
\* then selection) until reset() clears it, print resolved to null, no
\* progress status was set, session stats are unchanged and no external
\* call was made.
C10_PreconditionShortCircuit ==
    PreconditionViolated =>
        /\ pc = "idle"
        /\ returned = NullResult
        /\ lastResult \in {NullResult, FailureResult(ExpectedPreconditionError)}
        /\ (lastResult = NullResult => progress = initialProgress)
        /\ seenStatus = <<>>
        /\ progress.status = "idle"
        /\ sessionStats = statsAtStart
        /\ calls = <<>>

\* A connected wallet without signing capability and an empty selection:
\* the signer error wins over the selection error.
C10_Witness ==
    /\ attempts = 1
    /\ publicKey
    /\ ~signAllTransactions /\ ~signTransaction
    /\ Len(accounts) = 0
    /\ lastResult = FailureResult("Wallet does not support transaction signing")

\* ---- helpers over the built transactions

\* print has the transactions of its builder call (and asks for signatures).
Built == pc \in {"signAll", "signOne"}

\* The addresses closed by a list of transactions, in instruction order.
RECURSIVE CloseTargets(_)
CloseTargets(txs) ==
    IF Len(txs) = 0 THEN <<>>
    ELSE LET closes == InstructionsOf(txs[1], "closeAccount")
         IN  [k \in 1..Len(closes) |-> closes[k].account] \o CloseTargets(Tail(txs))

\* The rent held by the accounts a transaction closes, from the selection.
RentClosedBy(tx) ==
    SumRent(SelectSeq(accounts, LAMBDA acc : acc.address \in ClosedBy(tx)))

\* floor(lamports * fraction), for the fraction num / den itself
FloorOfShare(lamports, fraction) == (lamports * fraction.num) \div fraction.den

\* The fee fraction the builder is given, as the configuration states it.
FeeFractionArg == IF FEE_ENABLED THEN cfgFeePercentage ELSE ZeroFeePercentage

\* The lamports moved by the transfer instructions of a list of transactions.
RECURSIVE SumLamports(_)
SumLamports(instructions) ==
    IF Len(instructions) = 0 THEN 0
    ELSE instructions[1].lamports + SumLamports(Tail(instructions))
RECURSIVE TotalFee(_)
TotalFee(txs) ==
    IF Len(txs) = 0 THEN 0
    ELSE SumLamports(InstructionsOf(txs[1], "transfer")) + TotalFee(Tail(txs))

\* The attempt passed its precondition checks.
Entered == attempts >= 1 /\ Len(seenStatus) > 0

\* ---- C11
\* C11: when an attempt that passed its checks and was not cancelled is over
\* and none of its transactions confirmed without error, print's result has
\* success = FALSE, accountsClosed = 0, lamportsReclaimed = 0, feePaid = 0,
\* no signatures and a non-empty error message, the status it ended in is
\* error, and session stats are as before the attempt.
C11_NoConfirmationIsTotalFailure ==
    (AttemptOver /\ Entered /\ ~Cancelled /\ ConfirmedCount = 0) =>
        /\ returned.success = FALSE
        /\ returned.accountsClosed = 0
        /\ returned.lamportsReclaimed = 0
        /\ returned.solReclaimed = Sol(0)
        /\ returned.feePaid = Sol(0)
        /\ returned.signatures = <<>>
        /\ returned.error \notin {"", Null}
        /\ FinalStatus = "error"
        /\ sessionStats = statsAtStart

\* The first and only transaction was confirmed with an on-chain error.
C11_Witness ==
    /\ AttemptOver
    /\ Len(signedTransactions) = 1
    /\ CountCalls({"confirmTransactionReturnedErr"}, 1) = 1
    /\ returned.error = OnChainMessage(1)

\* ---- C12
\* What the attempt's result adds to the stats it started from.
StatsPlusResult ==
    [totalSolPrinted |-> SolPlus(statsAtStart.totalSolPrinted, returned.solKept),
     totalAccountsClosed |-> statsAtStart.totalAccountsClosed + returned.accountsClosed,
     printCount |-> statsAtStart.printCount + 1]

\* C12: session stats change only when an attempt ends; an attempt whose
\* result reports accountsClosed > 0, as a full or a partial success, has
\* added that count to totalAccountsClosed, its user-kept amount to
\* totalSolPrinted and 1 to printCount, once; every other attempt leaves the
\* stats as they were.
C12_StatsUpdatedIffClosed ==
    /\ ~AttemptOver => sessionStats = statsAtStart
    /\ AttemptOver =>
          IF returned # NullResult /\ returned.accountsClosed > 0
          THEN sessionStats = StatsPlusResult /\ sessionStats # statsAtStart
          ELSE sessionStats = statsAtStart

\* A second attempt ended as a partial success on top of the stats a first
\* attempt had left.
C12_Witness ==
    /\ AttemptOver
    /\ attempts = 2
    /\ statsAtStart.printCount = 1
    /\ returned # NullResult
    /\ returned.success = FALSE
    /\ returned.accountsClosed > 0
    /\ sessionStats.printCount = 2
    /\ sessionStats.totalAccountsClosed > returned.accountsClosed

\* ---- C13
CeilDiv(n, b) == (n + b - 1) \div b
CloseCount(tx) == Len(InstructionsOf(tx, "closeAccount"))

\* C13: the transactions built for n selected accounts under the batch size
\* B are ceil(n / B) many; each but the last holds B close instructions and
\* the last between 1 and B; and the close instructions of all transactions,
\* read in order, target the selected accounts in input order, each once.
C13_PartitionIntoBatches ==
    Built =>
        /\ Len(transactions) = CeilDiv(Len(accounts), cfgMaxPerTx)
        /\ \A k \in 1..(Len(transactions) - 1) : CloseCount(transactions[k]) = cfgMaxPerTx
        /\ CloseCount(transactions[Len(transactions)]) \in 1..cfgMaxPerTx
        /\ CloseTargets(transactions) = [k \in 1..Len(accounts) |-> accounts[k].address]

\* Eight accounts under the batch size 3: transactions of 3, 3 and 2.
C13_Witness ==
    /\ Built
    /\ cfgMaxPerTx = 3
    /\ Len(accounts) = 8
    /\ Len(transactions) = 3
    /\ CloseCount(transactions[3]) = 2

\* ---- C14
\* A fee recipient that parses as a public key is configured and the fee
\* fraction is positive.
FeeCollected == FeeRecipientPubkey # Undefined /\ FeeFractionArg.num > 0

\* The transfer the builder is expected to add for the accounts closed by tx.
ExpectedTransfer(tx) ==
    [Instruction("transfer") EXCEPT
        !.fromPubkey = WalletOwner,
        !.toPubkey = cfgFeeRecipient,
        !.lamports = FloorOfShare(RentClosedBy(tx), cfgFeePercentage)]

\* C14 (as claimed): with fee collection enabled and a recipient configured,
\* every built transaction carries exactly one transfer, from the owner to
\* the recipient, of floor(rent of its own batch * fee fraction) lamports.
C14_EveryTransactionCarriesFee ==
    (Built /\ FeeCollected) =>
        \A k \in 1..Len(transactions) :
            InstructionsOf(transactions[k], "transfer") = <<ExpectedTransfer(transactions[k])>>

\* C14 (amended): with fee collection enabled and a recipient configured, a
\* built transaction carries that one transfer when floor(rent of its own
\* batch * fee fraction) is positive, and no transfer when it is 0.
C14_FeePerBatchWhenPositive ==
    (Built /\ FeeCollected) =>
        \A k \in 1..Len(transactions) :
            InstructionsOf(transactions[k], "transfer") =
                IF ExpectedTransfer(transactions[k]).lamports > 0
                THEN <<ExpectedTransfer(transactions[k])>>
                ELSE <<>>

\* Two transactions whose transfers differ, each the tenth of its own batch.
C14_Witness ==
    /\ Built
    /\ FeeCollected
    /\ Len(transactions) = 2
    /\ Len(InstructionsOf(transactions[1], "transfer")) = 1
    /\ Len(InstructionsOf(transactions[2], "transfer")) = 1
    /\ InstructionsOf(transactions[1], "transfer")[1].lamports
         > InstructionsOf(transactions[2], "transfer")[1].lamports
    /\ InstructionsOf(transactions[2], "transfer")[1].lamports > 0

\* ---- C15
\* The fee fraction is 0 or no fee recipient is set.
NoFeeConfigured == cfgFeePercentage.num = 0 \/ cfgFeeRecipient = ""

\* C15: when the fee fraction is 0 or the fee recipient is unset, no
\* transaction built for the attempt holds a transfer instruction, and the
\* result of the attempt has feePaid = 0 and solKept = solReclaimed.
C15_NoFeeNoTransfer ==
    NoFeeConfigured =>
        /\ \A k \in 1..Len(transactions) :
              InstructionsOf(transactions[k], "transfer") = <<>>
        /\ (AttemptOver /\ returned # NullResult) =>
              /\ returned.feePaid = Sol(0)
              /\ returned.solKept = returned.solReclaimed

\* A recipient with the fee fraction 0: two transactions confirmed and the
\* user keeps everything reclaimed.
C15_Witness ==
    /\ AttemptOver
    /\ cfgFeeRecipient = FeeWallet
    /\ cfgFeePercentage = ZeroFeePercentage
    /\ ConfirmedCount = 2
    /\ returned # NullResult
    /\ returned.success
    /\ returned.solKept = Sol(SumRent(accounts))
    /\ returned.solKept # Sol(0)

\* ---- C16
\* C16: the fees of the built transactions sum to at most
\* floor(selected total rent * fee fraction) + (number of batches - 1).
C16_PerBatchFloorWithinSlack ==
    Built =>
        TotalFee(transactions)
            <= FloorOfShare(SumRent(accounts), FeeFractionArg) + (Len(transactions) - 1)

\* Four batches whose floored fees sum to less than the floored fee of the
\* whole selection.
C16_Witness ==
    /\ Built
    /\ FeeCollected
    /\ Len(transactions) = 4
    /\ TotalFee(transactions) > 0
    /\ TotalFee(transactions) < FloorOfShare(SumRent(accounts), FeeFractionArg)

\* ---- C17
\* C17: every built transaction holds, in this order, the compute-unit limit
\* directive, the compute-unit price directive, one close instruction per
\* account of its batch in batch order, and then at most one transfer; every
\* close instruction has the owner as authority and, as destination, the
\* parsed custom destination if there is one and the owner otherwise.
C17_InstructionOrder ==
    Built =>
        \A k \in 1..Len(transactions) :
            LET ins == transactions[k].instructions
                m == CloseCount(transactions[k])
                first == (k - 1) * cfgMaxPerTx
            IN  /\ Len(ins) \in {2 + m, 3 + m}
                /\ ins[1].kind = "setComputeUnitLimit"
                /\ ins[2].kind = "setComputeUnitPrice"
                /\ \A j \in 1..m :
                      /\ ins[2 + j].kind = "closeAccount"
                      /\ ins[2 + j].account = accounts[first + j].address
                      /\ ins[2 + j].authority = WalletOwner
                      /\ ins[2 + j].destination =
                            IF destinationPubkey # Undefined
                            THEN destinationPubkey ELSE WalletOwner
                /\ Len(ins) = 3 + m => ins[3 + m].kind = "transfer"

\* Two transactions refunding to a custom destination, the first ending
\* with its fee transfer.
C17_Witness ==
    /\ Built
    /\ destinationPubkey = CustomWallet
    /\ Len(transactions) = 2
    /\ transactions[1].instructions[Len(transactions[1].instructions)].kind = "transfer"
    /\ transactions[2].instructions[3].destination = CustomWallet

\* ---- C18
\* C18: one blockhash request is made per attempt, nothing is built before
\* it returns, and all built transactions carry one and the same blockhash
\* and last valid block height.
C18_OneBlockhashForAll ==
    /\ CountAll({"getLatestBlockhash"}) <= 1
    /\ pc \in {"delay", "blockhash"} => transactions = <<>>
    /\ Built =>
          /\ CountAll({"getLatestBlockhash"}) = 1
          /\ calls[1][1] = "getLatestBlockhash"
          /\ \A j, k \in 1..Len(transactions) :
                /\ transactions[j].recentBlockhash = transactions[k].recentBlockhash
                /\ transactions[j].lastValidBlockHeight = transactions[k].lastValidBlockHeight
          /\ \E latest \in LatestBlockhashes :
                \A k \in 1..Len(transactions) :
                    /\ transactions[k].recentBlockhash = latest.blockhash
                    /\ transactions[k].lastValidBlockHeight = latest.lastValidBlockHeight

\* Four transactions built on the second of the possible blockhashes.
C18_Witness ==
    /\ Built
    /\ Len(transactions) = 4
    /\ transactions[4].recentBlockhash = LatestBlockhash(2).blockhash

\* ---- C19
BlockhashFailed == CountAll({"getLatestBlockhashThrew"}) > 0

\* C19: after the blockhash request failed, no transaction exists, the
\* attempt is over with status error and a failure result carrying the
\* error's message (or the generic one when it has none), the signer was not
\* asked, nothing was sent and session stats are as before the attempt.
C19_BlockhashFailureIsFatal ==
    BlockhashFailed =>
        /\ transactions = <<>>
        /\ AttemptOver
        /\ FinalStatus = "error"
        /\ returned = FailureResult(IF lastFailure.error.message # ""
                                    THEN lastFailure.error.message
                                    ELSE "Unknown error occurred")
        /\ lastResult \in {returned, NullResult}
        /\ CountAll({"signAllTransactions", "signTransaction",
                     "sendRawTransaction", "confirmTransaction"}) = 0
        /\ sessionStats = statsAtStart

\* The request failed with an error that has no message.
C19_Witness ==
    /\ BlockhashFailed
    /\ lastFailure.error.message = ""
    /\ returned = FailureResult("Unknown error occurred")
    /\ lastResult = returned
    /\ progress.status = "error"

\* ---- C20
\* The token program that owns raw record k, where the data source tells:
\* on the fallback path the listing the record came from, on the
\* indexing-API path the record's program_id.
OwnerKnown(k) == ~OnDasPath \/ RawRecord(k).program_id # ""
OwningProgram(k) ==
    IF OnDasPath
    THEN IF RawRecord(k).program_id = ProgramIdLegacy
         THEN TOKEN_PROGRAM_ID ELSE TOKEN_2022_PROGRAM_ID
    ELSE IF k <= Len(CaughtValue(splResponse))
         THEN TOKEN_PROGRAM_ID ELSE TOKEN_2022_PROGRAM_ID

\* The close instructions built from the scan's closeable accounts.
ScanCloseInstructions ==
    UNION { { ScanBuiltTransactions[k].instructions[j] :
                j \in { x \in 1..Len(ScanBuiltTransactions[k].instructions) :
                          ScanBuiltTransactions[k].instructions[x].kind = "closeAccount" } } :
            k \in 1..Len(ScanBuiltTransactions) }

\* C20 (as claimed): once a scan is done, every closeable account carries
\* the token program that owns it, and its close instruction is addressed
\* to that program.
C20_ProgramVariantIsOwner ==
    scanPc = "done" =>
        /\ \A k \in 1..Len(scanResult.closeableAccounts) :
              LET acc == scanResult.closeableAccounts[k]
              IN  OwnerKnown(acc.address) => acc.programId = OwningProgram(acc.address)
        /\ \A ins \in ScanCloseInstructions :
              OwnerKnown(ins.account) => ins.programId = OwningProgram(ins.account)

\* ---- C21
\* The native lamport balance the data source reported for raw record k; on
\* the indexing-API path an absent balance stands for the default rent.
NativeLamports(k) ==
    IF OnDasPath /\ RawRecord(k).lamports = 0 THEN TOKEN_ACCOUNT_RENT_LAMPORTS
    ELSE RawRecord(k).lamports

\* The rents under which the scan returned address k as closeable.
RentsReturnedFor(k) ==
    { scanResult.closeableAccounts[j].rentLamports :
        j \in { x \in 1..Len(scanResult.closeableAccounts) :
                  scanResult.closeableAccounts[x].address = k } }

\* C21 (as claimed): once a scan is done, every record that is not frozen
\* and holds no tokens is classified closeable and returned with the
\* account's native lamport balance as its rent.
C21_EmptyUnfrozenIsCloseable ==
    scanPc = "done" =>
        \A k \in 1..RawCount :
            (~RawFrozen(k) /\ ~RawHoldsTokens(k)) =>
                /\ Classify(allAccounts[k]) = "closeable"
                /\ RentsReturnedFor(k) = {NativeLamports(k)}

\* C21 (amended): once a scan is done, every record that is not frozen,
\* holds no tokens and whose mint parses as a public key is classified
\* closeable and returned with the account's native lamport balance as its
\* rent.
C21_EmptyUnfrozenParsedIsCloseable ==
    scanPc = "done" =>
        \A k \in 1..RawCount :
            (~RawFrozen(k) /\ ~RawHoldsTokens(k) /\ IsValidPublicKey(RawRecord(k).mint)) =>
                /\ Classify(allAccounts[k]) = "closeable"
                /\ RentsReturnedFor(k) = {NativeLamports(k)}

\* A finished scan of the indexing API with an empty unfrozen record that
\* reports its lamports next to one that does not, both returned closeable.
C21_Witness ==
    /\ scanPc = "done"
    /\ OnDasPath
    /\ \E k, m \in 1..RawCount :
          /\ ~RawFrozen(k) /\ ~RawHoldsTokens(k) /\ RawRecord(k).lamports = 1000
          /\ ~RawFrozen(m) /\ ~RawHoldsTokens(m) /\ RawRecord(m).lamports = 0
          /\ RentsReturnedFor(k) = {1000}
          /\ RentsReturnedFor(m) = {TOKEN_ACCOUNT_RENT_LAMPORTS}

\* ---- C22
\* Raw record k cannot be parsed: its address (indexing API) or its mint is
\* absent or is not a public key.
ParseFails(k) ==
    \/ OnDasPath /\ ~IsValidPublicKey(RawRecord(k).address)
    \/ ~IsValidPublicKey(RawRecord(k).mint)

\* C22 (as claimed): a scan never rejects because of a record; once it has
\* its records it returns a result that covers all of them, and a record
\* that cannot be parsed and is not frozen is counted as skipped.
C22_ParseFailureNeverAborts ==
    /\ scanPc # "threw"
    /\ scanPc = "done" =>
          /\ scanResult.totalAccounts = RawCount
          /\ \A k \in 1..RawCount :
                (ParseFails(k) /\ ~RawFrozen(k)) => Classify(allAccounts[k]) = "skipped"

\* ---- C23
\* The indexing-API request failed, or produced no record.
PrimaryUnavailable == dasResponse.kind \in DasFailures \/ Len(dasResponse.token_accounts) = 0
\* The two RPC listings of the fallback path were requested.
FallbackEntered ==
    scanPc = "rpc" \/ splResponse # NoResponse \/ token2022Response # NoResponse

\* C23: once the indexing-API request has settled, the RPC listings are
\* requested exactly when the request failed (thrown network error, non-200
\* response, malformed JSON, error field, no token_accounts) or produced
\* zero records; such a failure never makes the scan reject, and a response
\* with at least one record is never followed by a listing.
C23_FallbackIffPrimaryUnavailable ==
    dasResponse # NoResponse =>
        /\ FallbackEntered <=> PrimaryUnavailable
        /\ PrimaryUnavailable => scanPc # "threw"
        /\ (scanPc = "done" /\ ~PrimaryUnavailable) => rpcSettled = <<>>

\* A scan whose indexing-API response carried an error field and which the
\* fallback listings completed with an account.
C23_Witness ==
    /\ scanPc = "done"
    /\ dasResponse.kind = "errorField"
    /\ Len(rpcSettled) = 2
    /\ scanResult.totalAccounts >= 1

\* ---- C24
\* The scan took the fallback path and both listings have settled.
BothSettled == splResponse # NoResponse /\ token2022Response # NoResponse

\* C24: on the fallback path the scan waits for both listings, in whichever
\* order they settle, and never rejects; its records are those of the
\* legacy listing followed by those of the Token-2022 listing, a listing
\* that threw contributing none, so that two failures give an empty result.
C24_ListingsIndependentlyTolerated ==
    FallbackEntered =>
        /\ scanPc # "threw"
        /\ BothSettled <=> scanPc = "done"
        /\ scanPc = "done" =>
              /\ scanResult.totalAccounts =
                    Len(CaughtValue(splResponse)) + Len(CaughtValue(token2022Response))
              /\ \A k \in 1..Len(allAccounts) :
                    /\ allAccounts[k].pubkey = k
                    /\ allAccounts[k].mint = RawRecord(k).mint
                    /\ allAccounts[k].lamports = RawRecord(k).lamports
                    /\ allAccounts[k].programId =
                          IF k <= Len(CaughtValue(splResponse))
                          THEN TOKEN_PROGRAM_ID ELSE TOKEN_2022_PROGRAM_ID
              /\ (splResponse.kind = "throws" /\ token2022Response.kind = "throws") =>
                    /\ scanResult.totalAccounts = 0
                    /\ scanResult.closeableAccounts = <<>>
                    /\ scanResult.totalReclaimableLamports = 0

\* The Token-2022 listing settled first with a closeable account, then the
\* legacy listing threw, and the scan returned that account.
C24_Witness ==
    /\ scanPc = "done"
    /\ rpcSettled = <<"token2022", "spl">>
    /\ splResponse.kind = "throws"
    /\ token2022Response.kind = "ok"
    /\ Len(scanResult.closeableAccounts) >= 1
    /\ scanResult.closeableAccounts[1].programId = TOKEN_2022_PROGRAM_ID

\* ---- C25
\* The positions of the records the loop classified closeable: the full
\* closeable set, before sorting and truncation.
FullCloseable == { k \in 1..Len(allAccounts) : Classify(allAccounts[k]) = "closeable" }
ReturnedAddresses ==
    { scanResult.closeableAccounts[j].address : j \in 1..Len(scanResult.closeableAccounts) }

\* C25: the closeable accounts a scan returns are min(total, 100) distinct
\* members of the full closeable set, each with its own rent, in descending
\* order of rent; no dropped account has more rent than a returned one; the
\* count is that of the full set; and isTruncated holds exactly when the
\* full set has more than 100 members.
C25_TruncationKeepsHighestRent ==
    scanPc = "done" =>
        LET ret == scanResult.closeableAccounts
        IN  /\ Len(ret) = Min(Cardinality(FullCloseable), MAX_ACCOUNTS_TO_PROCESS)
            /\ Cardinality(ReturnedAddresses) = Len(ret)
            /\ ReturnedAddresses \subseteq FullCloseable
            /\ \A j \in 1..Len(ret) : ret[j].rentLamports = allAccounts[ret[j].address].lamports
            /\ \A j \in 1..(Len(ret) - 1) : ret[j].rentLamports >= ret[j + 1].rentLamports
            /\ \A d \in FullCloseable \ ReturnedAddresses :
                  \A j \in 1..Len(ret) : ret[j].rentLamports >= allAccounts[d].lamports
            /\ scanResult.totalCloseableCount = Cardinality(FullCloseable)
            /\ scanResult.isTruncated <=> Cardinality(FullCloseable) > MAX_ACCOUNTS_TO_PROCESS

\* A truncated result of a response that listed its accounts by rising
\* rent: 100 returned, and a dropped account with less rent than the last
\* returned one.
C25_Witness ==
    /\ scanPc = "done"
    /\ scanResult.isTruncated
    /\ Len(scanResult.closeableAccounts) = MAX_ACCOUNTS_TO_PROCESS
    /\ allAccounts[1].lamports < allAccounts[2].lamports
    /\ \E d \in FullCloseable \ ReturnedAddresses :
          allAccounts[d].lamports
             < scanResult.closeableAccounts[MAX_ACCOUNTS_TO_PROCESS].rentLamports

\* ---- C26
\* The lamports of the closeable records among the first k records.
RECURSIVE CloseableLamportsUpTo(_)
CloseableLamportsUpTo(k) ==
    IF k = 0 THEN 0
    ELSE CloseableLamportsUpTo(k - 1)
         + (IF k \in FullCloseable THEN allAccounts[k].lamports ELSE 0)

\* The rent sum of the accounts the scan returned, from the raw records.
RECURSIVE ReturnedLamportsUpTo(_)
ReturnedLamportsUpTo(j) ==
    IF j = 0 THEN 0
    ELSE ReturnedLamportsUpTo(j - 1)
         + allAccounts[scanResult.closeableAccounts[j].address].lamports
SumLamportsOfReturned == ReturnedLamportsUpTo(Len(scanResult.closeableAccounts))

\* C26: in a scan's result totalReclaimableLamports is the rent sum of the
\* returned accounts, totalCloseableCount and the estimated total are the
\* count and the rent sum of the full closeable set, and the two totals are
\* equal exactly when the result is not truncated.
C26_DisplayedAndEstimatedTotals ==
    scanPc = "done" =>
        /\ scanResult.totalReclaimableLamports = SumLamportsOfReturned
        /\ scanResult.totalCloseableCount = Cardinality(FullCloseable)
        /\ scanResult.estimatedTotalLamports = CloseableLamportsUpTo(Len(allAccounts))
        /\ (scanResult.totalReclaimableLamports = scanResult.estimatedTotalLamports)
              <=> ~scanResult.isTruncated

\* A truncated result whose displayed total is smaller than its estimate,
\* with more closeable accounts counted than returned.
C26_Witness ==
    /\ scanPc = "done"
    /\ scanResult.isTruncated
    /\ scanResult.totalCloseableCount > Len(scanResult.closeableAccounts)
    /\ scanResult.totalReclaimableLamports < scanResult.estimatedTotalLamports
    /\ scanResult.skippedAccounts >= 1

\* ---- C27
\* The attempt ended with a result that reports closed accounts.
ReportedClosing ==
    AttemptOver /\ returned # NullResult /\ returned.accountsClosed > 0

\* floor(lamports * closed / selected) in exact arithmetic.
FloorOfProportion(lamports, closed, selected) ==
    (lamports \div selected) * closed + ((lamports % selected) * closed) \div selected

\* C27 (as claimed): the lamports a result reports as reclaimed are the
\* floor of the selection's lamports times the accounts closed over the
\* accounts selected; they do not exceed the selection's lamports and equal
\* them when every selected account was closed.
C27_ProportionalEstimate ==
    ReportedClosing =>
        /\ returned.lamportsReclaimed =
              FloorOfProportion(SumRent(accounts), returned.accountsClosed, Len(accounts))
        /\ returned.lamportsReclaimed <= SumRent(accounts)
        /\ returned.accountsClosed = Len(accounts) =>
              returned.lamportsReclaimed = SumRent(accounts)

\* ---- C28
\* The fee in lamports the claim states for a result: the floor of the fee
\* share of the reclaimed lamports.
FlooredFeeOf(result) == FloorOfShare(result.lamportsReclaimed, FeeFractionArg)

\* C28 (as claimed): in every result of print the fee paid and the amount
\* kept are whole numbers of lamports, the fee being the floor of the fee
\* share of the reclaimed lamports, and they add up to the reclaimed
\* lamports.
C28_ReclaimedIsFeePlusKept ==
    (AttemptOver /\ returned # NullResult) =>
        /\ returned.feePaid = Sol(FlooredFeeOf(returned))
        /\ returned.solKept = Sol(returned.lamportsReclaimed - FlooredFeeOf(returned))

\* ---- C29
\* a >= b for amounts in SOL
SolAtLeast(a, b) == DoubleAtMost(b, a)

\* A step of the hook that is no step of a print attempt: reset was called.
ResetStep == pc' = pc /\ attempts' = attempts /\ calls' = calls /\ hookVars' # hookVars

\* A step that ends a print attempt without a closed account: a
\* precondition failure, a cancellation or an error.
EndsWithoutClosing ==
    /\ attempts' # attempts \/ pc # "idle"
    /\ pc' = "idle"
    /\ returned' = NullResult \/ returned'.accountsClosed = 0

\* C29: over any sequence of print attempts and resets no session counter
\* ever decreases; a reset sets progress to its initial idle value and
\* lastResult to null and leaves the session stats alone, and an attempt
\* that ends cancelled, in error or on a failed precondition leaves them
\* alone too.
C29_StatsNeverDecrease ==
    [][/\ SolAtLeast(sessionStats'.totalSolPrinted, sessionStats.totalSolPrinted)
       /\ sessionStats'.totalAccountsClosed >= sessionStats.totalAccountsClosed
       /\ sessionStats'.printCount >= sessionStats.printCount
       /\ ResetStep =>
             /\ progress' = initialProgress
             /\ lastResult' = NullResult
             /\ sessionStats' = sessionStats
       /\ EndsWithoutClosing => sessionStats' = sessionStats]_vars

\* After a first attempt that closed accounts, a second attempt ended
\* without closing any and reset was called: the stats of the first attempt
\* are still there.
C29_Witness ==
    /\ attempts = 2
    /\ AttemptOver
    /\ returned = NullResult \/ returned.accountsClosed = 0
    /\ lastResult = NullResult
    /\ progress = initialProgress
    /\ sessionStats.printCount = 1
    /\ sessionStats.totalAccountsClosed >= 1
    /\ sessionStats.totalSolPrinted # Sol(0)

\* ---- C30
\* A print attempt is running: print was called and has not returned.
AttemptRunning == pc # "idle"

\* C30: provided every timer fires and every external call returns or
\* throws, every running print attempt eventually returns, and when it has
\* returned the progress status is none of the in-progress statuses
\* (preparing, awaiting_signature, submitting, confirming).
C30_AttemptEventuallyLeavesInProgress ==
    AttemptRunning ~> (~AttemptRunning /\ ~isPrinting)

\* An attempt went through preparing, awaiting_signature, submitting and
\* confirming and has returned with a final status.
C30_Witness ==
    /\ AttemptOver
    /\ \A status \in {"preparing", "awaiting_signature", "submitting", "confirming"} :
          \E k \in 1..Len(seenStatus) : seenStatus[k] = status
    /\ progress.status \in {"success", "partial_success", "error"}

\* ---- C31
\* The status changes of a print attempt as claimed; a status update that
\* repeats 'submitting' is counted as no change.
ClaimedTransitions ==
    { <<"preparing", "awaiting_signature">>, <<"preparing", "error">>,
      <<"awaiting_signature", "submitting">>, <<"awaiting_signature", "idle">>,
      <<"submitting", "submitting">>, <<"submitting", "confirming">>,
      <<"confirming", "submitting">>, <<"confirming", "success">>,
      <<"confirming", "partial_success">>, <<"confirming", "error">> }

\* The status changes of an attempt whose send call threw: the attempt ends
\* in error or in partial_success straight from 'submitting'.
AfterSendThrew == { <<"submitting", "partial_success">>, <<"submitting", "error">> }

TerminalStatuses == {"success", "partial_success", "error"}

\* Every status an attempt has set follows the one before it by a step of
\* the given set, the first one is 'preparing', and a terminal status or the
\* idle of a cancellation is the last one.
FollowsStateMachine(transitions) ==
    /\ Len(seenStatus) >= 1 => seenStatus[1] = "preparing"
    /\ \A k \in 1..(Len(seenStatus) - 1) :
          /\ <<seenStatus[k], seenStatus[k + 1]>> \in transitions
          /\ seenStatus[k] \notin TerminalStatuses \cup {"idle"}
    /\ (pc = "idle" /\ Len(seenStatus) >= 1) =>
          seenStatus[Len(seenStatus)] \in TerminalStatuses \cup {"idle"}

\* 'confirming' was set once for each send call that returned a signature.
ConfirmingOnlyAfterSend ==
    Cardinality({ k \in 1..Len(seenStatus) : seenStatus[k] = "confirming" }) = Len(signatures)

\* C31 (as claimed): the statuses of an attempt follow preparing,
\* awaiting_signature, submitting and confirming per transaction, then one
\* of success, partial_success and error, with awaiting_signature to idle
\* and preparing to error the only other steps.
C31_StatusStateMachine == FollowsStateMachine(ClaimedTransitions) /\ ConfirmingOnlyAfterSend

\* C31 (amended): as claimed, and from 'submitting' an attempt may also end
\* in error or partial_success when a send call threw; 'confirming' is set
\* only after the transaction's send returned, 'success' only follows
\* 'confirming', and a terminal status is the last one the attempt sets.
C31_StatusStateMachineWithSendFailure ==
    FollowsStateMachine(ClaimedTransitions \cup AfterSendThrew) /\ ConfirmingOnlyAfterSend

\* An attempt whose first transaction confirmed and whose last send call
\* threw ended in partial_success straight from 'submitting'.
C31_Witness ==
    /\ AttemptOver
    /\ Len(seenStatus) >= 6
    /\ seenStatus[Len(seenStatus)] = "partial_success"
    /\ seenStatus[Len(seenStatus) - 1] = "submitting"
    /\ \E k \in 1..Len(seenStatus) : seenStatus[k] = "confirming"

\* ---- C32
\* The transaction with signature k carries a fee transfer.
HasFeeTransfer(k) == Len(InstructionsOf(signedTransactions[k], "transfer")) > 0

\* C32: the feePaid of a print result is above 0 only if a confirmed
\* transaction carried a fee transfer; when none did, feePaid is 0 and the
\* amount kept is the amount reclaimed.
C32_FeePaidOnlyIfTransferred ==
    (AttemptOver /\ returned # NullResult) =>
        \/ \E k \in 1..Len(returned.signatures) : HasFeeTransfer(returned.signatures[k])
        \/ returned.feePaid = Sol(0) /\ returned.solKept = returned.solReclaimed

\* ---- C33
\* C33: once every scan has settled, a result held by the scanner hook is
\* the result of the most recently started scan, and there is none when
\* reset() was called after that scan started.
C33_LatestScanWins ==
    (scansInFlight = {} /\ scannerState.result # NoScanResult) =>
        scannerState.result.scan = latestScan

\* ---- C34
\* The numbers of the calls of the given name, in the order they were made.
CallsNamed(name) ==
    LET made == SelectSeq(calls, LAMBDA call : call[1] = name)
    IN  [k \in 1..Len(made) |-> made[k][2]]

\* C34: a signer offering sign-all gets one sign-all request and no
\* sign-one request; a signer offering sign-one only gets the transactions
\* one at a time in build order; and after a rejection the attempt ends as
\* cancelled with no transaction sent, the signed ones included.
C34_SigningAllOrNothing ==
    /\ (attempts >= 1 /\ signAllTransactions) =>
          /\ Len(CallsNamed("signTransaction")) = 0
          /\ Len(CallsNamed("signAllTransactions")) =
                (IF \E k \in 1..Len(seenStatus) : seenStatus[k] = "awaiting_signature"
                 THEN 1 ELSE 0)
    /\ (attempts >= 1 /\ ~signAllTransactions) =>
          /\ Len(CallsNamed("signAllTransactions")) = 0
          /\ CallsNamed("signTransaction") = [k \in 1..Len(CallsNamed("signTransaction")) |-> k]
          /\ Len(CallsNamed("signTransaction")) <= Len(transactions)
          /\ (\E k \in 1..Len(seenStatus) : seenStatus[k] = "awaiting_signature") =>
                Len(CallsNamed("signTransaction")) >= 1
          /\ Len(CallsNamed("sendRawTransaction")) > 0 =>
                Len(CallsNamed("signTransaction")) = Len(transactions)
    /\ Len(CallsNamed("signTransactionThrew")) + Len(CallsNamed("signAllTransactionsThrew")) > 0 =>
          /\ pc = "idle"
          /\ returned = FailureResult("cancelled")
          /\ Len(CallsNamed("sendRawTransaction")) = 0

\* The signer signed the first transaction and rejected the second one.
C34_Witness ==
    /\ AttemptOver
    /\ ~signAllTransactions
    /\ CallsNamed("signTransactionReturned") = <<1>>
    /\ CallsNamed("signTransactionThrew") = <<2>>
    /\ returned = FailureResult("cancelled")

\* ---- C35
\* C35: in every ScanResult the accounts scanned are the closeable ones
\* (before truncation), the skipped ones and the frozen ones together.
C35_EveryAccountCountedOnce ==
    scanResult # NoScanResult =>
        scanResult.totalAccounts =
            scanResult.totalCloseableCount + scanResult.skippedAccounts
                + scanResult.frozenAccounts

\* A scan that met a closeable account and an empty one whose mint does not
\* parse.
C35_Witness ==
    /\ scanResult # NoScanResult
    /\ scanResult.totalCloseableCount >= 1
    /\ scanResult.skippedAccounts >= 1
    /\ \E k \in 1..Len(allAccounts) :
          /\ IsEmpty([amount |-> allAccounts[k].amount, uiAmount |-> allAccounts[k].uiAmount])
          /\ Classify(allAccounts[k]) = "skipped"

\* ---- C36
\* C36: the signatures of a print result are those of the transactions
\* whose confirmation returned without an on-chain error, in the order they
\* were submitted; a transaction whose confirmation reported an error or
\* threw, or whose send threw, contributes none.
C36_SignaturesAreTheConfirmedOnes ==
    (AttemptOver /\ returned # NullResult) =>
        /\ returned.signatures = CallsNamed("confirmTransactionReturnedOk")
        /\ \A k \in 1..Len(returned.signatures) :
              /\ returned.signatures[k] \notin
                    { CallsNamed("confirmTransactionReturnedErr")[j] :
                        j \in 1..Len(CallsNamed("confirmTransactionReturnedErr")) }
              /\ k > 1 => returned.signatures[k - 1] < returned.signatures[k]

\* Of three transactions sent, the first confirmed, the second failed its
\* confirmation and the send of a later one threw.
C36_Witness ==
    /\ AttemptOver
    /\ returned # NullResult
    /\ Len(returned.signatures) >= 1
    /\ Len(CallsNamed("confirmTransactionReturnedErr")) >= 1
    /\ Len(CallsNamed("sendRawTransactionThrew")) >= 1

\* ---- C37
\* What an attempt that returned `result` adds to the session stats.
ContributionOf(result) ==
    IF result = NullResult \/ result.accountsClosed = 0
    THEN [totalSolPrinted |-> Sol(0), totalAccountsClosed |-> 0, printCount |-> 0]
    ELSE [totalSolPrinted |-> result.solKept,
          totalAccountsClosed |-> result.accountsClosed,
          printCount |-> 1]

BothAttemptsOver == attempts = 2 /\ pc = "idle" /\ parked.pc = "idle"

\* C37: when two print attempts, interleaved in any way at their awaits,
\* have both returned, the session stats are the initial stats plus what
\* each of the two attempts contributed.
C37_OverlappingAttemptsLoseNoUpdate ==
    BothAttemptsOver =>
        LET first == ContributionOf(returned)
            second == ContributionOf(parked.returned)
        IN  /\ sessionStats.totalAccountsClosed =
                  initialStats.totalAccountsClosed + first.totalAccountsClosed
                      + second.totalAccountsClosed
            /\ sessionStats.printCount =
                  initialStats.printCount + first.printCount + second.printCount
            /\ sessionStats.totalSolPrinted =
                  SolPlus(SolPlus(initialStats.totalSolPrinted, first.totalSolPrinted),
                          second.totalSolPrinted)

\* Two attempts that both closed accounts, the second started before the
\* first one returned and finished after it.
C37_Witness ==
    /\ BothAttemptsOver
    /\ returned # NullResult /\ returned.accountsClosed > 0
    /\ parked.returned # NullResult /\ parked.returned.accountsClosed > 0
    /\ returned.accountsClosed # parked.returned.accountsClosed
    /\ statsAtStart = initialStats
    /\ parked.statsAtStart = initialStats

\* ---------------------------------------------------------------- C38

\* Every handleScan call for an address that starts less than a window after
\* the start of a scan of that address that has succeeded is answered from
\* the cache.
OwedRequestsAnswered == \A r \in heroRequests : r.owed => ~r.scanned

\* A scan that rejected left the whole cache as it was.
RejectStoresNothing == heroLast.kind = "rejected" => scanCache = heroLast.before

\* A scan that resolved left the entries of the other addresses as they were.
OtherEntriesKept ==
    heroLast.kind = "resolved" =>
        \A a \in HeroAddresses \ {heroLast.address} : scanCache[a] = heroLast.before[a]

\* C38: after a successful scan of an address, every further scan request for
\* that address starting within five minutes of that scan's start returns the
\* cached result without calling the scanner; a failed scan stores nothing and
\* leaves an existing entry unchanged; entries of other addresses are never
\* affected.
C38_CacheAnswersWithinWindow ==
    /\ OwedRequestsAnswered
    /\ RejectStoresNothing
    /\ OtherEntriesKept

\* ---------------------------------------------------------------- C39

\* A refresh that ended with a thrown error left the cache as it was.
ThrownRefreshKeepsCache == payoutLast.kind = "threw" => cache = payoutLast.before

\* No refresh is running exactly when the in-flight marker is clear.
MarkerClearedAfterRefresh == (refreshPc \in {"idle", "exited"}) <=> (fetchPromise = Null)

\* C39: a refresh that fails to obtain data from the RPC, by a thrown network
\* error or by a response carrying an error field, leaves the cached payouts,
\* totalSolReclaimed and lastUpdated unchanged, and the in-flight marker is
\* cleared after every refresh, successful or not.
C39_FailedRefreshKeepsCache ==
    /\ payoutLast.kind \in {"threw", "rpc_error"} => cache = payoutLast.before
    /\ MarkerClearedAfterRefresh

\* ---------------------------------------------------------------- C40

\* Every call of the builder returns.
BuilderTerminates == (loopPc = "loop") ~> (loopPc = "returned")

\* Every transaction of a call that returned has a close instruction.
EveryTransactionCloses ==
    loopPc = "returned" =>
        \A k \in 1..Len(loopTransactions) : Len(loopTransactions[k].closes) >= 1

\* C40: createCloseAccountTransactions terminates for every finite list of
\* accounts under every value the batch size can be configured to, and each
\* transaction it returns contains at least one close instruction.
C40_BuilderTerminatesWithCloses == BuilderTerminates /\ []EveryTransactionCloses


=============================================================================
